---- MODULE Spec2Model ----
(***************************************************************************)
(* A model of the btShieldML PHP webshell scanner: the scorer, the scan    *)
(* engine (NewEngine, Scan, scanFile, canRunAnalyzer), the feature         *)
(* extractor and the persistent parser bridge manager (PhpAstManager).     *)
(*                                                                         *)
(* Conventions.  A Go value that may be nil is an option record: Nil for   *)
(* nil and Some(v) otherwise.  A confidence is an integer number of        *)
(* hundredths (0.91 is 91).  Risk levels are their integer codes.          *)
(***************************************************************************)
EXTENDS Integers, Sequences, FiniteSets, TLC

VARIABLES
    \* ---- the scorer called as a pure function (SpecScore) ----
    scFindings,     \* the fFindings list handed to CalculateScore
    scFeatureSet,   \* the feature set handed to CalculateScore (Nil or Some)
    scRisk,         \* Nil before the call, Some(risk level) after it
    \* ---- the engine and one file's lifecycle (Spec) ----
    cfgEnabled,     \* cfg.EnabledAnalyzers, as the set of lower-cased names
    startFails,     \* whether StartBridge returns an error in this process
    engine,         \* Nil before NewEngine, then Some([analyzers, astManager])
    isActive,       \* PhpAstManager.isActive
    parserExited,   \* "no", "exited" (exit message unread) or "observed"
    fpc,            \* position in the file loop: "init", "idle", "analyze", "done"
    fStat,          \* what stat reported for the current file (Nil: stat failed)
    fContentLen,    \* len(content) as read
    fReply,         \* what the parser did with the current file's request
    fWrote,         \* whether a request for the current file was written
    fFeatureSet,     \* the current file's feature set
    fRemaining,      \* the analyzers the loop has not reached yet
    fInvoked,        \* the analyzers whose Analyze was called for the current file
    fFindings,       \* the current file's fFindings so far
    fResult,         \* Nil, or Some(the current file's ScanResult)
    nFiles,         \* the number of files started
    \* ---- the parser bridge manager under concurrent callers (SpecBridge) ----
    mu,             \* PhpAstManager.mu: 0 when free, else the caller holding it
    cpc,            \* per caller: "idle" or "waiting" (inside GetAST's select)
    callNo,         \* per caller: the number of GetAST calls started
    comm,           \* the communication goroutines that have not returned
    chans,          \* per caller: what the call's resultChan/errChan holds
    lastRes,        \* per caller: the outcome of its last finished call
    reqPipe,        \* the requests written and not yet read by the parser
    respPipe,       \* the response items written and not yet read
    parserUp,       \* whether the parser is running (C.execute has not returned)
    phpExited,      \* the exit channel: "empty", "sent" or "taken"
    monPc,          \* monitorExit: "recv", "lock" or "done"
    \* ---- Engine.Scan and its workers (SpecScan) ----
    cfgConcurrency, \* e.config.Performance.Concurrency
    filesToScan,    \* the number of paths findFiles returned (paths are 1..filesToScan)
    reportPath,     \* whether task.ReportPath is set
    spc,            \* Scan's position: "off","start","loop","sem","wait","drain","report","done"
    loopIdx,        \* the index of the path the loop is at
    wg,             \* the WaitGroup counter
    sem,            \* the number of tokens in the semaphore channel
    wpc,            \* per path: "none","scan","send","release","done","exited"
    resultChan,     \* the buffered result channel
    results,        \* Scan's results slice
    reported,       \* what the reporter was given: Nil until it is invoked
    \* ---- the php-bridge package's globals and its callers (SpecPhp) ----
    goStdinWriter,  \* "nil" or the handle "stdin"
    goStdoutReader, \* "nil" or the handle "stdout"
    phpProcessExited, \* "nil" or the channel "exited"
    exitChan,       \* the channel's content: "empty", "msg" (sent, then closed) or "closed"
    initOnce,       \* whether initOnce.Do has run its function
    startErr,       \* "" or the stored start error
    stopOnce,       \* whether stopOnce.Do has run its function
    stopErr,        \* "" or the stored stop error
    initRuns,       \* how many times the function of initOnce.Do has run
    startCalls,     \* the outcomes of the StartBridge calls, in order
    stopCalls,      \* the outcomes of the StopBridge calls, in order
    \* ---- what the constructors compile and load in one process (SpecLoad) ----
    loads,          \* per resource: how many times it was compiled or loaded
    regexCompileOnce, \* whether regexCompileOnce.Do has run its function
    enginesBuilt,   \* the enabled sets of the engines constructed, in order
    \* ---- one call of a function of the program (SpecFind and the like) ----
    callArgs,       \* the arguments of the call
    callRet,        \* Nil before the call, then what it returned
    \* ---- the traversals of one tree, step by step (SpecWalk) ----
    walkPc,         \* "off", "parse", "words", "ops", "done" or "overflow"
    walkFn,         \* the function that is called on the tree
    walkAst,        \* the payload, then the tree ParseAST returned
    ckStack,        \* checkNameAndKind: per active call, the values left to visit
    ckWords,        \* checkNameAndKind: the words appended so far
    ckCallable,     \* checkNameAndKind: the callable flag so far
    opQueue,        \* GetOpSerial: the BFS queue
    opSerial,       \* GetOpSerial: currentSerial
    opResult,       \* GetOpSerial: result
    \* ---- the Scans run on one Engine (SpecShutdown) ----
    cleanupCalls    \* how many times PhpAstManager.Cleanup has run

scoreVars == <<scFindings, scFeatureSet, scRisk>>
engineVars == <<cfgEnabled, startFails, engine, isActive, parserExited>>
fileVars == <<fpc, fStat, fContentLen, fReply, fWrote, fFeatureSet, fRemaining,
              fInvoked, fFindings, fResult, nFiles>>
bridgeVars == <<mu, cpc, callNo, comm, chans, lastRes, reqPipe, respPipe,
                parserUp, phpExited, monPc>>
scanVars == <<cfgConcurrency, filesToScan, reportPath, spc, loopIdx, wg, sem, wpc,
              resultChan, results, reported>>
phpVars == <<goStdinWriter, goStdoutReader, phpProcessExited, exitChan, initOnce,
             startErr, stopOnce, stopErr, initRuns, startCalls, stopCalls>>
loadVars == <<loads, regexCompileOnce, enginesBuilt>>
callVars == <<callArgs, callRet>>
walkVars == <<walkPc, walkFn, walkAst, ckStack, ckWords, ckCallable, opQueue, opSerial,
              opResult>>
shutVars == <<cleanupCalls>>
vars == <<scoreVars, engineVars, fileVars, bridgeVars, scanVars, phpVars, loadVars, callVars,
          walkVars, shutVars>>

----------------------------------------------------------------------------
\* Option values for Go's nil-able pointers, slices and interfaces.

Nil == [some |-> FALSE]
Some(v) == [some |-> TRUE, val |-> v]
IsNil(o) == ~o.some

Min(a, b) == IF a < b THEN a ELSE b

\* All sequences over S of length at most n.
SeqsUpTo(S, n) == UNION {[1..k -> S] : k \in 0..n}

----------------------------------------------------------------------------
\* JSON values as json.Unmarshal yields them into interface{}:
\*   JNull (nil), JBool (bool), JNum (float64), JStr (string),
\*   JArr ([]interface{}) and JObj (map[string]interface{}).
\* An object is the sequence of its <<key, value>> entries in ascending key
\* order, the order in which the code visits a map after sort.Strings(keys).

JNull == [t |-> "null"]
JBool(b) == [t |-> "bool", b |-> b]
JNum(n) == [t |-> "num", n |-> n]
JStr(s) == [t |-> "str", s |-> s]
JArr(a) == [t |-> "arr", a |-> a]
JObj(m) == [t |-> "obj", m |-> m]

\* astNode{Kind, Flag, LineNo, Children}
AstNode(kind, flags, lineno, children) ==
    [t |-> "node", Kind |-> kind, Flag |-> flags, LineNo |-> lineno,
     Children |-> children]

HasKey(m, k) == \E i \in 1..Len(m) : m[i][1] = k

\* value[k] of a Go map: nil when the key is absent.
MapGet(m, k) ==
    IF HasKey(m, k)
    THEN m[CHOOSE i \in 1..Len(m) : m[i][1] = k][2]
    ELSE JNull

\* getInt: (value, ok); a float64 converts, nil and every other type do not.
getInt(v) ==
    IF v.t = "num" THEN [val |-> v.n, ok |-> TRUE] ELSE [val |-> 0, ok |-> FALSE]

\* isAstNodeMap: the map has a "kind" key.
isAstNodeMap(m) == HasKey(m, "kind")

RECURSIVE transformAstNode(_)
transformAstNode(nodeData) ==
    CASE nodeData.t = "null" -> JNull
      [] nodeData.t \in {"num", "str", "bool"} -> nodeData
      [] nodeData.t = "arr" ->
            JArr([i \in 1..Len(nodeData.a) |-> transformAstNode(nodeData.a[i])])
      [] nodeData.t = "obj" ->
            IF HasKey(nodeData.m, "kind") /\ getInt(MapGet(nodeData.m, "kind")).ok
            THEN AstNode(getInt(MapGet(nodeData.m, "kind")).val,
                         getInt(MapGet(nodeData.m, "flags")).val,
                         getInt(MapGet(nodeData.m, "lineno")).val,
                         transformAstNode(MapGet(nodeData.m, "children")))
            ELSE JObj([i \in 1..Len(nodeData.m) |->
                          <<nodeData.m[i][1], transformAstNode(nodeData.m[i][2])>>])
      [] OTHER -> nodeData

\* A response payload that is not JSON at all.
InvalidJson == [t |-> "invalid"]

\* ParseAST: [ast |-> tree or JNull, err |-> "" or the error kind].
ParseAST(data) ==
    IF data.t = "invalid"
    THEN [ast |-> JNull, err |-> "invalid JSON"]
    ELSE IF data.t = "obj"
    THEN IF HasKey(data.m, "ast")
         THEN [ast |-> transformAstNode(MapGet(data.m, "ast")), err |-> ""]
         ELSE IF HasKey(data.m, "reason")
         THEN [ast |-> JNull, err |-> "php parser error"]
         ELSE [ast |-> JNull, err |-> "unexpected JSON structure"]
    ELSE [ast |-> transformAstNode(data), err |-> ""]

\* The node kinds that make a file callable.
AST_SHELL_EXEC == 265
AST_INCLUDE_OR_EVAL == 269
AST_CALL == 515
AST_METHOD_CALL == 768
AST_STATIC_CALL == 769

CallableKinds_NoCall ==
    {AST_INCLUDE_OR_EVAL, AST_SHELL_EXEC, AST_METHOD_CALL, AST_STATIC_CALL}

\* kindChecker: k == 269 || k == 265 || k == 515 || k == 768 || k == 769
CallableKinds ==
    {AST_INCLUDE_OR_EVAL, AST_SHELL_EXEC, AST_CALL, AST_METHOD_CALL, AST_STATIC_CALL}

\* checkNameAndKind: the traversal of GetWordsAndCallable, as the pair of the
\* words appended (in order) and whether a callable kind was met.
RECURSIVE checkNameAndKind(_)
checkNameAndKind(node) ==
    LET Join(parts) ==
            \* concatenates the results of the visits of a list of values
            LET RECURSIVE J(_)
                J(n) == IF n = 0
                        THEN [words |-> <<>>, callable |-> FALSE]
                        ELSE LET p == J(n - 1)
                                 q == checkNameAndKind(parts[n])
                             IN  [words |-> p.words \o q.words,
                                  callable |-> p.callable \/ q.callable]
            IN  J(Len(parts))
    IN  CASE node.t = "node" ->
               LET own == IF /\ node.Children.t = "obj"
                             /\ HasKey(node.Children.m, "name")
                             /\ MapGet(node.Children.m, "name").t = "str"
                          THEN <<MapGet(node.Children.m, "name").s>>
                          ELSE <<>>
                   sub == checkNameAndKind(node.Children)
               IN  [words |-> own \o sub.words,
                    callable |-> (node.Kind \in CallableKinds) \/ sub.callable]
          [] node.t = "arr" -> Join(node.a)
          [] node.t = "obj" ->
               IF isAstNodeMap(node.m)
               THEN checkNameAndKind(transformAstNode(node))
               ELSE Join([i \in 1..Len(node.m) |-> node.m[i][2]])
          [] OTHER -> [words |-> <<>>, callable |-> FALSE]

\* GetWordsAndCallable: words is a nil slice unless a word was appended.
GetWordsAndCallable(astRoot) ==
    IF astRoot.t = "null"
    THEN [words |-> Nil, callable |-> FALSE, err |-> "cannot process nil AST"]
    ELSE LET r == checkNameAndKind(astRoot)
         IN  [words |-> IF r.words = <<>> THEN Nil ELSE Some(r.words),
              callable |-> r.callable, err |-> ""]

\* cleanOpSerial's blockCompare, with the 0-based index i of the code.
blockCompare(data, i, length) ==
    /\ i + 2 * length <= Len(data)
    /\ \A k \in 0..(length - 1) : data[i + k + 1] = data[i + length + k + 1]

\* The inner loop "for j < len(tmp)" of cleanOpSerial for one block length.
RECURSIVE cleanScan(_, _, _)
cleanScan(tmp, j, length) ==
    IF j >= Len(tmp)
    THEN tmp
    ELSE IF blockCompare(tmp, j, length)
    THEN cleanScan(SubSeq(tmp, 1, j) \o SubSeq(tmp, j + length + 1, Len(tmp)),
                   j, length)
    ELSE cleanScan(tmp, j + 1, length)

\* The loop "for length := maxLen; length >= 1; length--".
RECURSIVE cleanLengths(_, _)
cleanLengths(tmp, length) ==
    IF length < 1 THEN tmp ELSE cleanLengths(cleanScan(tmp, 0, length), length - 1)

cleanOpSerial(data, maxLen) ==
    [i \in 1..Len(data) |-> cleanLengths(data[i], maxLen)]

maxCleanTimes == 10
maxCleanLength == 5

\* The cleaning loop at the end of GetOpSerial.
RECURSIVE cleanLoop(_, _, _)
cleanLoop(result, cleanedResult, i) ==
    IF i < maxCleanTimes /\ Len(result) # Len(cleanedResult)
    THEN cleanLoop(cleanedResult, cleanOpSerial(cleanedResult, maxCleanLength), i + 1)
    ELSE cleanedResult

\* opQueueNode{Key, Value, Father}; Father is Nil or Some(the father's Kind).
\* The key of an array element (strconv.Itoa(i)) is written "#": it is never
\* "children" or "separator", the only keys the traversal compares.
opQueueNode(key, value, father) == [Key |-> key, Value |-> value, Father |-> father]

\* One iteration of the BFS loop of GetOpSerial on a non-empty queue: the
\* queue, the running sequence and the sequences emitted after it.
opIteration(queue, currentSerial, result) ==
    LET node == Head(queue)
        rest == Tail(queue)
        value == node.Value
        separator ==
            IF node.Key = "children"
            THEN <<opQueueNode("separator", JNull, node.Father)>>
            ELSE <<>>
        Loop(q, c, r) == [queue |-> q, currentSerial |-> c, result |-> r]
    IN  CASE value.t = "node" ->
               Loop(IF value.Children.t # "null"
                    THEN Append(rest, opQueueNode("children", value.Children,
                                                  Some(value.Kind)))
                    ELSE rest,
                    Append(currentSerial, value.Kind), result)
          [] value.t = "null" ->
               IF node.Key = "separator" /\ Len(currentSerial) > 0
               THEN Loop(rest, <<>>,
                         Append(result,
                                (IF node.Father.some THEN <<node.Father.val>>
                                 ELSE <<>>) \o currentSerial))
               ELSE Loop(rest, currentSerial, result)
          [] value.t = "arr" ->
               Loop(rest
                    \o [i \in 1..Len(value.a) |->
                           opQueueNode("#", value.a[i], node.Father)]
                    \o (IF Len(value.a) > 0 THEN separator ELSE <<>>),
                    currentSerial, result)
          [] value.t = "obj" ->
               IF isAstNodeMap(value.m)
               THEN Loop(Append(rest, opQueueNode(node.Key, transformAstNode(value),
                                                  node.Father)),
                         currentSerial, result)
               ELSE Loop(rest
                         \o [i \in 1..Len(value.m) |->
                                opQueueNode(value.m[i][1], value.m[i][2], node.Father)]
                         \o (IF Len(value.m) > 0 THEN separator ELSE <<>>),
                         currentSerial, result)
          [] OTHER -> Loop(rest, currentSerial, result)

\* The BFS loop of GetOpSerial: the sequences emitted and the running one.
RECURSIVE opBfs(_, _, _)
opBfs(queue, currentSerial, result) ==
    IF queue = <<>>
    THEN [currentSerial |-> currentSerial, result |-> result]
    ELSE LET n == opIteration(queue, currentSerial, result)
         IN  opBfs(n.queue, n.currentSerial, n.result)

\* GetOpSerial: seqs is a nil slice when no sequence was emitted.
GetOpSerial(astRoot) ==
    IF astRoot.t = "null"
    THEN [seqs |-> Nil, err |-> "cannot process nil AST"]
    ELSE LET b == opBfs(<<opQueueNode("root", astRoot, Nil)>>, <<>>, <<>>)
             result == IF Len(b.currentSerial) > 0
                       THEN Append(b.result, b.currentSerial)
                       ELSE b.result
             cleaned == cleanLoop(result, cleanOpSerial(result, maxCleanLength), 1)
         IN  [seqs |-> IF cleaned = <<>> THEN Nil ELSE Some(cleaned), err |-> ""]

----------------------------------------------------------------------------
\* The response payloads the parser is tried with.

\* {"kind": k, "flags": 0, "lineno": 1, "children": c}
JNode(k, c) ==
    JObj(<< <<"children", c>>, <<"flags", JNum(0)>>, <<"kind", JNum(k)>>,
            <<"lineno", JNum(1)>> >>)

JVar(name) == JNode(256, JObj(<< <<"name", JStr(name)>> >>))

\* <?php eval($_POST['x']);
AstEval ==
    JNode(132, JArr(<< JNode(AST_INCLUDE_OR_EVAL,
        JObj(<< <<"expr", JNode(512,
            JObj(<< <<"dim", JStr("x")>>, <<"expr", JVar("_POST")>> >>))>> >>)) >>))

\* <?php echo "hi";        (no name, no callable kind)
AstEcho == JNode(132, JArr(<< JNode(283, JObj(<< <<"expr", JStr("hi")>> >>)) >>))

\* <?php $a = $b;          (names, no callable kind)
AstAssign ==
    JNode(132, JArr(<< JNode(517,
        JObj(<< <<"expr", JVar("b")>>, <<"var", JVar("a")>> >>)) >>))

\* <?php `ls`;             (a callable kind, no name)
AstShell ==
    JNode(132, JArr(<< JNode(AST_SHELL_EXEC, JObj(<< <<"expr", JStr("ls")>> >>)) >>))

PayloadAst(ast) == JObj(<< <<"ast", ast>> >>)
PayloadReason == JObj(<< <<"reason", JStr("syntax error")>> >>)
PayloadOther == JObj(<< <<"error", JStr("x")>> >>)

\* Payloads that carry a tree.
TreePayloads ==
    {PayloadAst(AstEval), PayloadAst(AstEcho), PayloadAst(AstAssign),
     PayloadAst(AstShell)}

\* Every payload (a response of positive length).
Payloads ==
    TreePayloads \cup {PayloadAst(JNull), PayloadReason, PayloadOther, InvalidJson}

----------------------------------------------------------------------------
\* pkg/types: RiskLevel

RiskUnknown == 0
RiskNone == 1
RiskLow == 2
RiskMedium == 3
RiskHigh == 4
RiskCritical == 5

\* types.Finding{AnalyzerName, Risk, Confidence}
Finding(name, risk, confidence) ==
    [AnalyzerName |-> name, Risk |-> risk, Confidence |-> confidence]

----------------------------------------------------------------------------
\* scoring: CalculateScore

\* The confidence above which an svm_prosses finding counts (hundredths).
HighConfidenceThreshold == 91

\* The cap of the total score.
MaxScore == 5

HighConfidence_085(finding) == finding.Confidence > 85

\* case "svm_prosses": if finding.Confidence > 0.91
HighConfidence(finding) == finding.Confidence > HighConfidenceThreshold

RECURSIVE MatchFlags_LastSvmDecides(_, _)
MatchFlags_LastSvmDecides(findings, n) ==
    IF n = 0
    THEN [hasRegexMatch |-> FALSE, hasYaraMatch |-> FALSE,
          highConfidencePrediction |-> FALSE, hasStatisticalAnomaly |-> FALSE]
    ELSE LET prev == MatchFlags_LastSvmDecides(findings, n - 1)
             finding == findings[n]
         IN  CASE finding.AnalyzerName = "regex" ->
                    [prev EXCEPT !.hasRegexMatch = TRUE]
               [] finding.AnalyzerName = "yara" ->
                    [prev EXCEPT !.hasYaraMatch = TRUE]
               [] finding.AnalyzerName = "svm_prosses" ->
                    [prev EXCEPT !.highConfidencePrediction =
                                    finding.Confidence > HighConfidenceThreshold]
               [] finding.AnalyzerName = "statistical" ->
                    [prev EXCEPT !.hasStatisticalAnomaly = TRUE]
               [] OTHER -> prev

\* The loop over the findings: the four match flags after the first n findings.
RECURSIVE MatchFlags(_, _)
MatchFlags(findings, n) ==
    IF n = 0
    THEN [hasRegexMatch |-> FALSE, hasYaraMatch |-> FALSE,
          highConfidencePrediction |-> FALSE, hasStatisticalAnomaly |-> FALSE]
    ELSE LET prev == MatchFlags(findings, n - 1)
             finding == findings[n]
         IN  CASE finding.AnalyzerName = "regex" ->
                    [prev EXCEPT !.hasRegexMatch = TRUE]
               [] finding.AnalyzerName = "yara" ->
                    [prev EXCEPT !.hasYaraMatch = TRUE]
               [] finding.AnalyzerName = "svm_prosses" ->
                    IF HighConfidence(finding)
                    THEN [prev EXCEPT !.highConfidencePrediction = TRUE]
                    ELSE prev
               [] finding.AnalyzerName = "statistical" ->
                    [prev EXCEPT !.hasStatisticalAnomaly = TRUE]
               [] OTHER -> prev

\* The total score: rules 1 to 6.
TotalScore(findings, featureSet) ==
    LET m == MatchFlags(findings, Len(findings))
        hasCallable == featureSet.some /\ featureSet.val.Callable
        s1 == IF m.hasRegexMatch THEN 1 ELSE 0
        s2 == s1 + (IF m.hasYaraMatch THEN 1 ELSE 0)
        s3 == s2 + (IF m.hasRegexMatch /\ m.hasYaraMatch THEN 2 ELSE 0)
        s4 == s3 + (IF hasCallable /\ m.highConfidencePrediction THEN 2 ELSE 0)
        s5 == s4 + (IF hasCallable /\ m.hasStatisticalAnomaly THEN 2 ELSE 0)
    IN  IF s5 > MaxScore THEN MaxScore ELSE s5

\* The switch from the score to the risk level.
ScoreToRisk(totalScore) ==
    CASE totalScore >= 5 -> RiskCritical
      [] totalScore >= 4 -> RiskHigh
      [] totalScore >= 3 -> RiskMedium
      [] totalScore >= 1 -> RiskLow
      [] OTHER -> RiskNone

CalculateScore(findings, featureSet) ==
    IF Len(findings) = 0
    THEN RiskNone
    ELSE ScoreToRisk(TotalScore(findings, featureSet))

----------------------------------------------------------------------------
\* SpecScore: CalculateScore applied to every bounded findings list.

\* The longest findings list handed to the scorer.
MaxFindings == 4

\* The findings the scorer is tried on: one per analyzer, and an svm_prosses
\* finding on each side of the 0.91 boundary.
FindingPool ==
    { Finding("regex", RiskCritical, 90),
      Finding("yara", RiskCritical, 100),
      Finding("statistical", RiskMedium, 70),
      Finding("bayes_words", RiskMedium, 99),
      Finding("svm_prosses", RiskHigh, 91),
      Finding("svm_prosses", RiskHigh, 92) }

ScoreFeatureSets ==
    {Nil, Some([Callable |-> FALSE]), Some([Callable |-> TRUE])}

ScoreInit ==
    /\ scFindings \in SeqsUpTo(FindingPool, MaxFindings)
    /\ scFeatureSet \in ScoreFeatureSets
    /\ scRisk = Nil

ScoreIdle ==
    /\ scFindings = <<>>
    /\ scFeatureSet = Nil
    /\ scRisk = Nil

ScoreCall ==
    /\ scRisk = Nil
    /\ scRisk' = Some(CalculateScore(scFindings, scFeatureSet))
    /\ UNCHANGED <<scFindings, scFeatureSet, engineVars, fileVars, bridgeVars, scanVars, phpVars, loadVars, callVars, walkVars, shutVars>>

----------------------------------------------------------------------------
\* features: FeatureSet and ExtractAllFeatures

\* The statistical vector is kept as what the analyzers read of it: whether
\* IsStatisticalAbnormal holds of it under the default thresholds.
StatisticalFeatures(abnormal) == [abnormal |-> abnormal]

\* ExtractAllFeatures(fileInfo, content, goAST, astMgr): the feature set.
\* content is given by its length and by whether its vector is abnormal;
\* astMgr by whether it is non-nil.
ExtractAllFeatures(contentLen, abnormal, goAST, astMgr) ==
    LET w == GetWordsAndCallable(goAST)
        o == GetOpSerial(goAST)
        haveTree == goAST.t # "null" /\ astMgr
    IN  [RawAST |-> goAST,
         Statistical |-> IF contentLen > 0
                         THEN Some(StatisticalFeatures(abnormal))
                         ELSE Nil,
         ASTWords |-> IF haveTree /\ w.err = "" THEN w.words ELSE Nil,
         Callable |-> IF haveTree /\ w.err = "" THEN w.callable ELSE FALSE,
         ASTOpSequence |-> IF haveTree /\ o.err = "" THEN o.seqs ELSE Nil]

----------------------------------------------------------------------------
\* The analyzers: Name, RequiredFeatures, Analyze.

AnalyzerNames == {"regex", "yara", "statistical", "bayes_words", "svm_prosses"}

RequiredFeatures(name) ==
    CASE name = "regex" -> <<>>
      [] name = "yara" -> <<>>
      [] name = "statistical" -> <<"statistical", "callable">>
      [] name = "bayes_words" -> <<"ast_words">>
      [] name = "svm_prosses" -> <<"statistical", "ast_words">>

\* What an Analyze call depends on besides the feature set: whether the file
\* bytes match (regex, yara), and the confidence the model computes
\* (bayes_words, svm_prosses), Nil when the model is not loaded or yields none.
AnalyzeInputs == {Nil, Some(50), Some(95), Some(99)}

\* The svm_prosses finding threshold (hundredths).
SvmThreshold == 95

\* Analyze: Nil (no finding) or Some(finding).
Analyze(name, fs, input) ==
    CASE name = "regex" ->
            IF input.some THEN Some(Finding("regex", RiskCritical, 90)) ELSE Nil
      [] name = "yara" ->
            IF input.some THEN Some(Finding("yara", RiskCritical, 100)) ELSE Nil
      [] name = "statistical" ->
            IF ~fs.Statistical.some
            THEN Nil
            ELSE IF fs.Statistical.val.abnormal /\ fs.Callable
            THEN Some(Finding("statistical", RiskMedium, 70))
            ELSE Nil
      [] name = "bayes_words" ->
            IF ~input.some \/ ~fs.ASTWords.some
            THEN Nil
            ELSE IF Len(fs.ASTWords.val) = 0
            THEN Nil
            ELSE Some(Finding("bayes_words", RiskMedium, input.val))
      [] name = "svm_prosses" ->
            IF ~input.some \/ ~fs.Statistical.some
            THEN Nil
            ELSE IF input.val >= SvmThreshold
            THEN Some(Finding("svm_prosses", RiskHigh, input.val))
            ELSE Nil

----------------------------------------------------------------------------
\* engine: canRunAnalyzer

canRunAnalyzer_AllPresent(required, fs) == TRUE

\* The loop over the required keys, from index i on.
RECURSIVE canRunFrom(_, _, _)
canRunFrom(required, i, fs) ==
    IF i > Len(required)
    THEN TRUE
    ELSE LET featureKey == required[i]
             known == featureKey \in {"statistical", "ast_words", "ast_op_sequence",
                                      "callable", "ast_callable", "raw_ast"}
             keyPresent ==
                 CASE featureKey = "statistical" -> fs.Statistical.some
                   [] featureKey = "ast_words" -> fs.ASTWords.some
                   [] featureKey = "ast_op_sequence" -> fs.ASTOpSequence.some
                   [] featureKey \in {"callable", "ast_callable"} -> TRUE
                   [] featureKey = "raw_ast" -> fs.RawAST.t # "null"
                   [] OTHER -> FALSE
         IN  IF ~known THEN FALSE
             ELSE IF ~keyPresent THEN FALSE
             ELSE canRunFrom(required, i + 1, fs)

\* canRunAnalyzer(analyzer, fs), fs Nil or Some(feature set).
canRunAnalyzer(required, fs) ==
    IF Len(required) = 0 THEN TRUE
    ELSE IF ~fs.some THEN FALSE
    ELSE canRunFrom(required, 1, fs.val)

----------------------------------------------------------------------------
\* ast: GetAST as one caller at a time sees it (the concurrent steps are the
\* bridge actions below).

\* What the parser does with a request: it answers with a payload, answers
\* with a length-0 header, a negative length or an unreadable header, exits
\* (EOF), or stays silent until the caller's timeout.
Replies ==
    {[k |-> "data", payload |-> p] : p \in Payloads}
    \cup {[k |-> "len0"], [k |-> "neglen"], [k |-> "badheader"], [k |-> "eof"],
          [k |-> "timeout"]}

NoReply == [k |-> "none"]

GetAST_InactiveOnError(active, sourceLen, reply) ==
    IF ~active
    THEN [ast |-> JNull, err |-> "php bridge is not active", wrote |-> FALSE,
          active |-> FALSE]
    ELSE IF sourceLen = 0
    THEN [ast |-> JNull, err |-> "communication failed: empty source",
          wrote |-> FALSE, active |-> FALSE]
    ELSE IF reply.k = "data" /\ ParseAST(reply.payload).err = ""
    THEN [ast |-> ParseAST(reply.payload).ast, err |-> "", wrote |-> TRUE,
          active |-> TRUE]
    ELSE [ast |-> JNull, err |-> "failed", wrote |-> TRUE, active |-> FALSE]

\* GetAST(source): the tree (JNull for nil), the error ("" for nil), whether a
\* request was written, and isActive when the call returns (GetAST never
\* assigns it).
GetAST(active, sourceLen, reply) ==
    IF ~active
    THEN [ast |-> JNull, err |-> "php bridge is not active", wrote |-> FALSE,
          active |-> active]
    ELSE IF sourceLen = 0
    THEN [ast |-> JNull, err |-> "communication failed: empty source",
          wrote |-> FALSE, active |-> active]
    ELSE CASE reply.k = "data" ->
                [ast |-> ParseAST(reply.payload).ast,
                 err |-> ParseAST(reply.payload).err, wrote |-> TRUE,
                 active |-> active]
           [] reply.k = "len0" ->
                [ast |-> JNull, err |-> "communication failed: parse error (length 0)",
                 wrote |-> TRUE, active |-> active]
           [] reply.k = "timeout" ->
                [ast |-> JNull, err |-> "timeout", wrote |-> TRUE, active |-> active]
           [] OTHER ->
                [ast |-> JNull, err |-> "communication failed: transport",
                 wrote |-> TRUE, active |-> active]

----------------------------------------------------------------------------
\* engine: NewEngine

\* The configurations tried: the default one (all five analyzers), each
\* analyzer alone, regex with yara, and the default one with a name the
\* engine does not know.
EnabledConfigs ==
    {AnalyzerNames, AnalyzerNames \cup {"svm_ops"}, {"regex", "yara"}}
    \cup {{n} : n \in AnalyzerNames}

\* astRequiredBy := []string{"regex", "yara", "bayes_words", "statistical", "svm_prosses"}
astRequiredBy == {"regex", "yara", "bayes_words", "statistical", "svm_prosses"}

\* The analyzers NewEngine registers: enabled, known, not skipped for the
\* missing AST manager, and initialized without error.
RegisteredAnalyzers(enabledSet, astMgr, initErrs) ==
    {n \in enabledSet :
        /\ ~(n \in astRequiredBy /\ ~astMgr)
        /\ n \in AnalyzerNames
        /\ n \notin initErrs}

EngineInit ==
    /\ cfgEnabled \in EnabledConfigs
    /\ startFails \in BOOLEAN
    /\ engine = Nil
    /\ isActive = FALSE
    /\ parserExited = "no"
    /\ fpc = "init"
    /\ fStat = Nil
    /\ fContentLen = 0
    /\ fReply = NoReply
    /\ fWrote = FALSE
    /\ fFeatureSet = Nil
    /\ fRemaining = {}
    /\ fInvoked = {}
    /\ fFindings = <<>>
    /\ fResult = Nil
    /\ nFiles = 0

EngineIdle ==
    /\ cfgEnabled = {}
    /\ startFails = FALSE
    /\ engine = Nil
    /\ isActive = FALSE
    /\ parserExited = "no"
    /\ fpc = "off"
    /\ fStat = Nil
    /\ fContentLen = 0
    /\ fReply = NoReply
    /\ fWrote = FALSE
    /\ fFeatureSet = Nil
    /\ fRemaining = {}
    /\ fInvoked = {}
    /\ fFindings = <<>>
    /\ fResult = Nil
    /\ nFiles = 0

\* The constructors that are tried with an error return.
FailingConstructors == {"yara", "svm_prosses"}

\* NewEngine(cfg).  initErrs: the analyzers whose constructor returns an error.
NewEngine ==
    /\ fpc = "init"
    /\ \E initErrs \in SUBSET FailingConstructors :
          LET needsAST == cfgEnabled \cap astRequiredBy # {}
              astMgr == needsAST /\ ~startFails
          IN  /\ engine' = Some([analyzers |->
                                    RegisteredAnalyzers(cfgEnabled, astMgr, initErrs),
                                 astManager |-> astMgr,
                                 initErrs |-> initErrs \cap cfgEnabled])
              /\ isActive' = astMgr
    /\ fpc' = "idle"
    /\ UNCHANGED <<cfgEnabled, startFails, parserExited, fStat, fContentLen, fReply,
                   fWrote, fFeatureSet, fRemaining, fInvoked, fFindings, fResult, nFiles,
                   scoreVars, bridgeVars, scanVars, phpVars, loadVars, callVars, walkVars, shutVars>>

\* monitorExit: the exit message arrives; isActive becomes false.
monitorExit ==
    /\ parserExited = "exited"
    /\ parserExited' = "observed"
    /\ isActive' = FALSE
    /\ UNCHANGED <<cfgEnabled, startFails, engine, fileVars, scoreVars, bridgeVars, scanVars, phpVars, loadVars, callVars, walkVars, shutVars>>

----------------------------------------------------------------------------
\* engine: Scan's file loop and scanFile, one file at a time.

\* The number of files one Scan handles here.
MaxFiles == 2

\* const maxSize = 10 * 1024 * 1024
maxSize == 10 * 1024 * 1024

\* The sizes stat reports.
FileSizes == {0, maxSize, maxSize + 1}

\* types.ScanResult{OverallRisk, Findings, Error}; Error "" is nil.
ScanResult(risk, fs, err) == [OverallRisk |-> risk, Findings |-> fs, Error |-> err]

scanFileEarly_NoSizeLimit(stat, readOk) ==
    IF ~stat.some
    THEN Some(ScanResult(RiskUnknown, <<>>, "stat error"))
    ELSE IF stat.val = 0
    THEN Some(ScanResult(RiskNone, <<>>, ""))
    ELSE IF ~readOk
    THEN Some(ScanResult(RiskUnknown, <<>>, "read error"))
    ELSE Nil

scanFileEarly_EmptyUnknown(stat, readOk) ==
    IF ~stat.some
    THEN Some(ScanResult(RiskUnknown, <<>>, "stat error"))
    ELSE IF stat.val > maxSize
    THEN Some(ScanResult(RiskUnknown, <<>>, "file exceeds size limit"))
    ELSE IF stat.val = 0
    THEN Some(ScanResult(RiskUnknown, <<>>, ""))
    ELSE IF ~readOk
    THEN Some(ScanResult(RiskUnknown, <<>>, "read error"))
    ELSE Nil

\* scanFile, step 1: the fResult when the file is not scanned, else Nil.
scanFileEarly(stat, readOk) ==
    IF ~stat.some
    THEN Some(ScanResult(RiskUnknown, <<>>, "stat error"))
    ELSE IF stat.val > maxSize
    THEN Some(ScanResult(RiskUnknown, <<>>, "file exceeds size limit"))
    ELSE IF stat.val = 0
    THEN Some(ScanResult(RiskNone, <<>>, ""))
    ELSE IF ~readOk
    THEN Some(ScanResult(RiskUnknown, <<>>, "read error"))
    ELSE Nil

FileReset ==
    /\ fContentLen' = 0
    /\ fReply' = NoReply
    /\ fWrote' = FALSE
    /\ fFeatureSet' = Nil
    /\ fRemaining' = {}
    /\ fInvoked' = {}
    /\ fFindings' = <<>>

\* Scan's loop: os.Stat fails before the worker is started.
ScanStatError ==
    /\ fpc \in {"idle", "done"}
    /\ nFiles < MaxFiles
    /\ nFiles' = nFiles + 1
    /\ fStat' = Nil
    /\ FileReset
    /\ fResult' = Some(ScanResult(RiskUnknown, <<>>, "stat error"))
    /\ fpc' = "done"
    /\ UNCHANGED <<engineVars, scoreVars, bridgeVars, scanVars, phpVars, loadVars, callVars, walkVars, shutVars>>

\* scanFile up to the analyzer loop: stat, size checks, read, GetAST,
\* ExtractAllFeatures.
scanFileBegin ==
    /\ fpc \in {"idle", "done"}
    /\ nFiles < MaxFiles
    /\ nFiles' = nFiles + 1
    /\ \E stat \in {Nil} \cup {Some(n) : n \in FileSizes}, readOk \in BOOLEAN :
          /\ fStat' = stat
          /\ IF scanFileEarly(stat, readOk).some
             THEN /\ fResult' = scanFileEarly(stat, readOk)
                  /\ fpc' = "done"
                  /\ FileReset
                  /\ UNCHANGED <<parserExited, isActive>>
             ELSE \E len \in {0, 1}, abnormal \in BOOLEAN, reply \in Replies :
                    \* once the parser has exited every exchange ends by EOF
                    /\ parserExited # "no" => reply.k = "eof"
                    /\ LET mgr == engine.val.astManager
                           got == IF mgr THEN GetAST(isActive, len, reply)
                                  ELSE [ast |-> JNull, err |-> "", wrote |-> FALSE,
                                        active |-> isActive]
                       IN  /\ fContentLen' = len
                           /\ fReply' = IF got.wrote THEN reply ELSE NoReply
                           /\ fWrote' = got.wrote
                           /\ parserExited' =
                                 IF got.wrote /\ reply.k = "eof" /\ parserExited = "no"
                                 THEN "exited" ELSE parserExited
                           /\ isActive' = IF mgr THEN got.active ELSE isActive
                           /\ fFeatureSet' =
                                 Some(ExtractAllFeatures(len, abnormal, got.ast, mgr))
                    /\ fRemaining' = engine.val.analyzers
                    /\ fInvoked' = {}
                    /\ fFindings' = <<>>
                    /\ fResult' = Nil
                    /\ fpc' = "analyze"
    /\ UNCHANGED <<cfgEnabled, startFails, engine, scoreVars, bridgeVars, scanVars, phpVars, loadVars, callVars, walkVars, shutVars>>

\* One iteration of "for _, name := range enabledNames": the names come from
\* ranging over the analyzers map, in an order the runtime picks.
scanFileAnalyze ==
    /\ fpc = "analyze"
    /\ \E name \in fRemaining, input \in AnalyzeInputs :
          /\ fRemaining' = fRemaining \ {name}
          /\ IF canRunAnalyzer(RequiredFeatures(name), fFeatureSet)
             THEN /\ fInvoked' = fInvoked \cup {name}
                  /\ fFindings' =
                        IF Analyze(name, fFeatureSet.val, input).some
                        THEN Append(fFindings, Analyze(name, fFeatureSet.val, input).val)
                        ELSE fFindings
             ELSE UNCHANGED <<fInvoked, fFindings>>
    /\ UNCHANGED <<engineVars, scoreVars, bridgeVars, scanVars, phpVars, loadVars, callVars, walkVars, shutVars, fpc, fStat, fContentLen, fReply, fWrote,
                   fFeatureSet, fResult, nFiles>>

\* scanFile, step 5: the score.
scanFileFinish ==
    /\ fpc = "analyze"
    /\ fRemaining = {}
    /\ fResult' = Some(ScanResult(CalculateScore(fFindings, fFeatureSet), fFindings, ""))
    /\ fpc' = "done"
    /\ UNCHANGED <<engineVars, scoreVars, bridgeVars, scanVars, phpVars, loadVars, callVars, walkVars, shutVars, fStat, fContentLen, fReply, fWrote,
                   fFeatureSet, fRemaining, fInvoked, fFindings, nFiles>>

----------------------------------------------------------------------------
\* ast: PhpAstManager with concurrent GetAST callers, the communication
\* goroutine each call starts, the parser at the other end of the pipes, and
\* monitorExit.
\*
\* A call is named <<caller, number>>, and so is its source.  A request is
\* written whole.  A response is a header item, followed by a body item when
\* the header announces a positive length:
\*   [k |-> "hdr", src], [k |-> "body", src]   the tree of source src
\*   [k |-> "len0"]                            parse failure (length 0 and the error line)
\*   [k |-> "neg"], [k |-> "bad"]              a negative length, an unreadable header

\* The number of concurrent GetAST callers (scan workers).
NumCallers == 2

\* The number of GetAST calls each caller makes.
MaxCalls == 2

Callers == 1..NumCallers

BridgeInit ==
    /\ mu = 0
    /\ cpc = [c \in Callers |-> "idle"]
    /\ callNo = [c \in Callers |-> 0]
    /\ comm = {}
    /\ chans = [c \in Callers |-> Nil]
    /\ lastRes = [c \in Callers |-> [k |-> "none"]]
    /\ reqPipe = <<>>
    /\ respPipe = <<>>
    /\ parserUp = TRUE
    /\ phpExited = "empty"
    /\ monPc = "recv"

BridgeIdle ==
    /\ mu = 0
    /\ cpc = <<>>
    /\ callNo = <<>>
    /\ comm = {}
    /\ chans = <<>>
    /\ lastRes = <<>>
    /\ reqPipe = <<>>
    /\ respPipe = <<>>
    /\ parserUp = FALSE
    /\ phpExited = "empty"
    /\ monPc = "off"

\* NewPhpAstManager in SpecBridge: the manager is constructed, active.
BridgeManagerInit ==
    /\ cfgEnabled = {}
    /\ startFails = FALSE
    /\ engine = Nil
    /\ isActive = TRUE
    /\ parserExited = "no"
    /\ fpc = "off"
    /\ fStat = Nil
    /\ fContentLen = 0
    /\ fReply = NoReply
    /\ fWrote = FALSE
    /\ fFeatureSet = Nil
    /\ fRemaining = {}
    /\ fInvoked = {}
    /\ fFindings = <<>>
    /\ fResult = Nil
    /\ nFiles = 0

bridgeRest == <<cfgEnabled, startFails, engine, parserExited, fileVars, scoreVars, scanVars, phpVars, loadVars, callVars, walkVars, shutVars>>

\* The context of a call is done once the call has returned (timeout, or the
\* deferred cancel).
CtxDone(call) == ~(cpc[call[1]] = "waiting" /\ callNo[call[1]] = call[2])

\* GetAST: Lock, the isActive check and, when active, the start of the
\* communication goroutine.
GetAST_Enter(c) ==
    /\ cpc[c] = "idle"
    /\ callNo[c] < MaxCalls
    /\ mu = 0
    /\ callNo' = [callNo EXCEPT ![c] = @ + 1]
    /\ IF ~isActive
       THEN /\ lastRes' = [lastRes EXCEPT ![c] =
                              [k |-> "err", kind |-> "inactive", call |-> <<c, callNo'[c]>>]]
            /\ UNCHANGED <<mu, cpc, comm, chans>>
       ELSE /\ mu' = c
            /\ cpc' = [cpc EXCEPT ![c] = "waiting"]
            /\ comm' = comm \cup {[call |-> <<c, callNo'[c]>>, pc |-> "write"]}
            /\ chans' = [chans EXCEPT ![c] = Nil]
            /\ UNCHANGED lastRes
    /\ UNCHANGED <<isActive, reqPipe, respPipe, parserUp, phpExited, monPc, bridgeRest>>

\* The end of a communication goroutine: it sends x to the call's channel
\* unless the call's context is done.
Deliver(g, x) ==
    /\ comm' = comm \ {g}
    /\ chans' = IF CtxDone(g.call) THEN chans
                ELSE [chans EXCEPT ![g.call[1]] = Some(x)]

\* communicateWithBridge, steps 1 and 2: the length header and the source.
Comm_Write(g) ==
    /\ g \in comm /\ g.pc = "write"
    /\ IF parserUp
       THEN /\ reqPipe' = Append(reqPipe, g.call)
            /\ comm' = (comm \ {g}) \cup {[g EXCEPT !.pc = "readLen"]}
            /\ UNCHANGED chans
       ELSE /\ Deliver(g, [k |-> "err", kind |-> "transport"])
            /\ UNCHANGED reqPipe
    /\ UNCHANGED <<mu, cpc, callNo, lastRes, respPipe, parserUp, phpExited, monPc,
                   isActive, bridgeRest>>

\* communicateWithBridge, step 3: the response length header.
Comm_ReadLen(g) ==
    /\ g \in comm /\ g.pc = "readLen"
    /\ \/ /\ respPipe # <<>>
          /\ respPipe' = Tail(respPipe)
          /\ LET item == Head(respPipe)
             IN  CASE item.k = "hdr" ->
                        /\ comm' = (comm \ {g}) \cup {[g EXCEPT !.pc = "readData"]}
                        /\ UNCHANGED chans
                   [] item.k = "len0" ->
                        Deliver(g, [k |-> "err", kind |-> "parse"])
                   [] OTHER ->
                        Deliver(g, [k |-> "err", kind |-> "transport"])
       \/ /\ respPipe = <<>> /\ ~parserUp
          /\ Deliver(g, [k |-> "err", kind |-> "transport"])
          /\ UNCHANGED respPipe
    /\ UNCHANGED <<mu, cpc, callNo, lastRes, reqPipe, parserUp, phpExited, monPc,
                   isActive, bridgeRest>>

\* communicateWithBridge, step 4: the AST data.
Comm_ReadData(g) ==
    /\ g \in comm /\ g.pc = "readData"
    /\ \/ /\ respPipe # <<>>
          /\ respPipe' = Tail(respPipe)
          /\ LET item == Head(respPipe)
             IN  IF item.k = "body"
                 THEN Deliver(g, [k |-> "data", src |-> item.src])
                 ELSE Deliver(g, [k |-> "data", src |-> <<0, 0>>])
       \/ /\ respPipe = <<>> /\ ~parserUp
          /\ Deliver(g, [k |-> "err", kind |-> "transport"])
          /\ UNCHANGED respPipe
    /\ UNCHANGED <<mu, cpc, callNo, lastRes, reqPipe, parserUp, phpExited, monPc,
                   isActive, bridgeRest>>

\* GetAST's select, cases resultChan and errChan, and the return (Unlock).
\* Data that is no response body (src <<0, 0>>) does not parse.  In the
\* errChan case the inner select may also report the error as a timeout.
GetAST_Return(c) ==
    /\ cpc[c] = "waiting"
    /\ chans[c].some
    /\ LET x == chans[c].val
           call == <<c, callNo[c]>>
       IN  \E asTimeout \in BOOLEAN :
             lastRes' = [lastRes EXCEPT ![c] =
                CASE x.k = "data" /\ x.src # <<0, 0>> ->
                        [k |-> "tree", src |-> x.src, call |-> call]
                  [] x.k = "data" ->
                        [k |-> "err", kind |-> "parse", call |-> call]
                  [] OTHER ->
                        [k |-> "err",
                         kind |-> IF asTimeout THEN "timeout" ELSE x.kind,
                         call |-> call]]
    /\ chans' = [chans EXCEPT ![c] = Nil]
    /\ cpc' = [cpc EXCEPT ![c] = "idle"]
    /\ mu' = 0
    /\ UNCHANGED <<callNo, comm, reqPipe, respPipe, parserUp, phpExited, monPc,
                   isActive, bridgeRest>>

\* GetAST's select, case <-ctx.Done(): the timeout, and the return (Unlock).
\* The communication goroutine stays where it is.
GetAST_Timeout(c) ==
    /\ cpc[c] = "waiting"
    /\ lastRes' = [lastRes EXCEPT ![c] =
                      [k |-> "err", kind |-> "timeout", call |-> <<c, callNo[c]>>]]
    /\ chans' = [chans EXCEPT ![c] = Nil]
    /\ cpc' = [cpc EXCEPT ![c] = "idle"]
    /\ mu' = 0
    /\ UNCHANGED <<callNo, comm, reqPipe, respPipe, parserUp, phpExited, monPc,
                   isActive, bridgeRest>>

\* The parser reads one request and answers it.
Parser_Serve ==
    /\ parserUp
    /\ reqPipe # <<>>
    /\ reqPipe' = Tail(reqPipe)
    /\ \E answer \in {"tree", "len0", "neg", "bad"} :
          respPipe' = respPipe \o
              (IF answer = "tree"
               THEN <<[k |-> "hdr", src |-> Head(reqPipe)],
                      [k |-> "body", src |-> Head(reqPipe)]>>
               ELSE <<[k |-> answer]>>)
    /\ UNCHANGED <<mu, cpc, callNo, comm, chans, lastRes, parserUp, phpExited, monPc,
                   isActive, bridgeRest>>

\* C.execute returns: the pipes' parser ends close and the exit is signalled.
Parser_Exit ==
    /\ parserUp
    /\ parserUp' = FALSE
    /\ phpExited' = "sent"
    /\ UNCHANGED <<mu, cpc, callNo, comm, chans, lastRes, reqPipe, respPipe, monPc,
                   isActive, bridgeRest>>

\* monitorExit: err := <-m.phpExited
monitorExit_Recv ==
    /\ monPc = "recv"
    /\ phpExited = "sent"
    /\ phpExited' = "taken"
    /\ monPc' = "lock"
    /\ UNCHANGED <<mu, cpc, callNo, comm, chans, lastRes, reqPipe, respPipe, parserUp,
                   isActive, bridgeRest>>

\* monitorExit: Lock; isActive = false; Unlock
monitorExit_Set ==
    /\ monPc = "lock"
    /\ mu = 0
    /\ isActive' = FALSE
    /\ monPc' = "done"
    /\ UNCHANGED <<mu, cpc, callNo, comm, chans, lastRes, reqPipe, respPipe, parserUp,
                   phpExited, bridgeRest>>

----------------------------------------------------------------------------
\* engine: Engine.Scan, the main goroutine and one worker goroutine per path.
\* A result is [path, statErr]; what scanFile computes for a path is the
\* subject of Spec.

\* The number of paths findFiles returns, at most.
NumFiles == 5

\* The configured concurrency values.
ConcurrencyValues == {0, 1, 2}

DefaultConcurrency == 4

EffectiveConcurrency_Default8(c) == IF c <= 0 THEN 8 ELSE c

\* concurrency := e.config.Performance.Concurrency; if concurrency <= 0 { concurrency = 4 }
EffectiveConcurrency(c) == IF c <= 0 THEN DefaultConcurrency ELSE c

wgWait_NoWait(n) == TRUE

\* wg.Wait() returns when the counter is zero.
wgWait(n) == n = 0

ScanInit ==
    /\ cfgConcurrency \in ConcurrencyValues
    /\ filesToScan \in 0..NumFiles
    /\ reportPath \in BOOLEAN
    /\ spc = "start"
    /\ loopIdx = 1
    /\ wg = 0
    /\ sem = 0
    /\ wpc = [i \in 1..filesToScan |-> "none"]
    /\ resultChan = <<>>
    /\ results = <<>>
    /\ reported = Nil

ScanIdle ==
    /\ cfgConcurrency = 0
    /\ filesToScan = 0
    /\ reportPath = FALSE
    /\ spc = "off"
    /\ loopIdx = 0
    /\ wg = 0
    /\ sem = 0
    /\ wpc = <<>>
    /\ resultChan = <<>>
    /\ results = <<>>
    /\ reported = Nil

scanRest == <<scoreVars, engineVars, fileVars, bridgeVars, phpVars, loadVars, callVars, walkVars, shutVars>>

\* generateReport: the reporter is given the results, unless the output
\* path's extension is unsupported and the configured format is html.
generateReport(res, unsupported) ==
    IF unsupported THEN Nil ELSE Some(res)

\* Scan up to the loop: no files found.
Scan_Start ==
    /\ spc = "start"
    /\ IF filesToScan = 0
       THEN /\ spc' = "done"
            /\ \E unsupported \in BOOLEAN :
                 reported' = IF reportPath THEN generateReport(<<>>, unsupported) ELSE Nil
       ELSE /\ spc' = "loop"
            /\ UNCHANGED reported
    /\ UNCHANGED <<cfgConcurrency, filesToScan, reportPath, loopIdx, wg, sem, wpc,
                   resultChan, results, scanRest>>

\* The loop body up to wg.Add(1): the stat check before the goroutine.
Scan_Stat ==
    /\ spc = "loop"
    /\ loopIdx <= filesToScan
    /\ \E statOk \in BOOLEAN :
         IF statOk
         THEN /\ wg' = wg + 1
              /\ spc' = "sem"
              /\ UNCHANGED <<results, loopIdx>>
         ELSE /\ results' = Append(results, [path |-> loopIdx, statErr |-> TRUE])
              /\ loopIdx' = loopIdx + 1
              /\ UNCHANGED <<wg, spc>>
    /\ UNCHANGED <<cfgConcurrency, filesToScan, reportPath, sem, wpc, resultChan,
                   reported, scanRest>>

\* sem <- struct{}{} and the go statement.
Scan_Go ==
    /\ spc = "sem"
    /\ sem < EffectiveConcurrency(cfgConcurrency)
    /\ sem' = sem + 1
    /\ wpc' = [wpc EXCEPT ![loopIdx] = "scan"]
    /\ loopIdx' = loopIdx + 1
    /\ spc' = "loop"
    /\ UNCHANGED <<cfgConcurrency, filesToScan, reportPath, wg, resultChan, results,
                   reported, scanRest>>

\* The worker: result := e.scanFile(fp, e.astManager)
Worker_scanFile(i) ==
    /\ wpc[i] = "scan"
    /\ wpc' = [wpc EXCEPT ![i] = "send"]
    /\ UNCHANGED <<cfgConcurrency, filesToScan, reportPath, spc, loopIdx, wg, sem,
                   resultChan, results, reported, scanRest>>

resultChanCap_Unbuffered(n) == 0

\* resultChan := make(chan *types.ScanResult, len(filesToScan))
resultChanCap(n) == n

\* The worker: resultChan <- result (capacity len(filesToScan)).
Worker_Send(i) ==
    /\ wpc[i] = "send"
    /\ Len(resultChan) < resultChanCap(filesToScan)
    /\ resultChan' = Append(resultChan, [path |-> i, statErr |-> FALSE])
    /\ wpc' = [wpc EXCEPT ![i] = "release"]
    /\ UNCHANGED <<cfgConcurrency, filesToScan, reportPath, spc, loopIdx, wg, sem,
                   results, reported, scanRest>>

\* The worker's deferred func() { <-sem }().
Worker_Release(i) ==
    /\ wpc[i] = "release"
    /\ sem > 0
    /\ sem' = sem - 1
    /\ wpc' = [wpc EXCEPT ![i] = "done"]
    /\ UNCHANGED <<cfgConcurrency, filesToScan, reportPath, spc, loopIdx, wg,
                   resultChan, results, reported, scanRest>>

\* The worker's deferred wg.Done().
Worker_Done(i) ==
    /\ wpc[i] = "done"
    /\ wg' = wg - 1
    /\ wpc' = [wpc EXCEPT ![i] = "exited"]
    /\ UNCHANGED <<cfgConcurrency, filesToScan, reportPath, spc, loopIdx, sem,
                   resultChan, results, reported, scanRest>>

\* wg.Wait(); close(resultChan)
Scan_Wait ==
    /\ spc = "loop"
    /\ loopIdx > filesToScan
    /\ wgWait(wg)
    /\ spc' = "drain"
    /\ UNCHANGED <<cfgConcurrency, filesToScan, reportPath, loopIdx, wg, sem, wpc,
                   resultChan, results, reported, scanRest>>

\* for res := range resultChan { results = append(results, res) }
Scan_Drain ==
    /\ spc = "drain"
    /\ IF resultChan # <<>>
       THEN /\ results' = Append(results, Head(resultChan))
            /\ resultChan' = Tail(resultChan)
            /\ UNCHANGED spc
       ELSE /\ spc' = "report"
            /\ UNCHANGED <<results, resultChan>>
    /\ UNCHANGED <<cfgConcurrency, filesToScan, reportPath, loopIdx, wg, sem, wpc,
                   reported, scanRest>>

\* return e.generateReport(results, task)
Scan_Report ==
    /\ spc = "report"
    /\ \E unsupported \in BOOLEAN :
         reported' = generateReport(results, reportPath /\ unsupported)
    /\ spc' = "done"
    /\ UNCHANGED <<cfgConcurrency, filesToScan, reportPath, loopIdx, wg, sem, wpc,
                   resultChan, results, scanRest>>

----------------------------------------------------------------------------
\* php_bridge: the package globals, StartBridge, StopBridge, the goroutine
\* that runs C.execute, and the manager's monitorExit as the other receiver
\* of the exit channel.

\* The number of StartBridge calls, and of StopBridge calls.
MaxBridgeCalls == 3

PhpInit ==
    /\ goStdinWriter = "nil"
    /\ goStdoutReader = "nil"
    /\ phpProcessExited = "nil"
    /\ exitChan = "empty"
    /\ initOnce = FALSE
    /\ startErr = ""
    /\ stopOnce = FALSE
    /\ stopErr = ""
    /\ initRuns = 0
    /\ startCalls = <<>>
    /\ stopCalls = <<>>

PhpIdle == PhpInit

phpRest == <<scoreVars, engineVars, fileVars, bridgeVars, scanVars, callVars, walkVars, shutVars>>

\* What StartBridge returns after initOnce.Do: the handles, or the error.
StartBridgeReturn(err, w, r, ch) ==
    IF err # ""
    THEN [stdin |-> "nil", stdout |-> "nil", exited |-> "nil", err |-> err]
    ELSE IF w = "nil" \/ r = "nil" \/ ch = "nil"
    THEN [stdin |-> "nil", stdout |-> "nil", exited |-> "nil",
          err |-> "bridge state inconsistent after initialization attempt"]
    ELSE [stdin |-> w, stdout |-> r, exited |-> ch, err |-> ""]

\* StartBridge: initOnce.Do runs its function on the first call only; fail is
\* "" or the step that fails (a pipe, C.init).
StartBridge ==
    /\ Len(startCalls) < MaxBridgeCalls
    /\ \E fail \in {"", "failed to create stdin pipe", "php bridge C initialization failed"} :
         LET first == ~initOnce
             err == IF first THEN fail ELSE startErr
             w == IF first THEN (IF fail = "" THEN "stdin" ELSE "nil") ELSE goStdinWriter
             r == IF first THEN (IF fail = "" THEN "stdout" ELSE "nil") ELSE goStdoutReader
             ch == IF first THEN (IF fail = "" THEN "exited" ELSE "nil") ELSE phpProcessExited
         IN  /\ first \/ fail = ""
             /\ initOnce' = TRUE
             /\ initRuns' = IF first THEN initRuns + 1 ELSE initRuns
             /\ startErr' = err
             /\ goStdinWriter' = w
             /\ goStdoutReader' = r
             /\ phpProcessExited' = ch
             /\ startCalls' = Append(startCalls, StartBridgeReturn(err, w, r, ch))
    /\ UNCHANGED <<exitChan, stopOnce, stopErr, stopCalls, phpRest>>

\* The goroutine around C.execute: execute returns, the exit message is sent
\* and the channel closed.
Php_ExecuteReturns ==
    /\ initOnce /\ startErr = ""
    /\ exitChan = "empty"
    /\ exitChan' = "msg"
    /\ UNCHANGED <<goStdinWriter, goStdoutReader, phpProcessExited, initOnce, startErr,
                   stopOnce, stopErr, initRuns, startCalls, stopCalls, phpRest>>

\* PhpAstManager.monitorExit takes the exit message.
Php_MonitorTakes ==
    /\ exitChan = "msg"
    /\ exitChan' = "closed"
    /\ UNCHANGED <<goStdinWriter, goStdoutReader, phpProcessExited, initOnce, startErr,
                   stopOnce, stopErr, initRuns, startCalls, stopCalls, phpRest>>

\* StopBridge: stopOnce.Do runs its function on the first call only.  With the
\* channel empty, either execute returns within the 5 s (inTime) or the select
\* times out.
StopBridge ==
    /\ Len(stopCalls) < MaxBridgeCalls
    /\ \E inTime \in BOOLEAN :
         LET first == ~stopOnce
             running == initOnce /\ startErr = ""
             got == IF phpProcessExited = "nil" THEN "none"
                    ELSE IF exitChan = "msg" THEN "err"
                    ELSE IF exitChan = "closed" THEN "closed"
                    ELSE IF inTime /\ running THEN "err"
                    ELSE "timeout"
             err == IF ~first THEN stopErr
                    ELSE IF got = "err" THEN "php bridge C execute returned"
                    ELSE IF got = "timeout" THEN "timeout waiting for bridge exit signal"
                    ELSE stopErr
         IN  /\ first \/ inTime
             /\ stopOnce' = TRUE
             /\ stopErr' = err
             /\ goStdinWriter' = IF first THEN "nil" ELSE goStdinWriter
             /\ goStdoutReader' = IF first THEN "nil" ELSE goStdoutReader
             /\ phpProcessExited' = IF first THEN "nil" ELSE phpProcessExited
             /\ exitChan' = IF first /\ got = "err" THEN "closed" ELSE exitChan
             /\ stopCalls' = Append(stopCalls, err)
    /\ UNCHANGED <<initOnce, startErr, initRuns, startCalls, phpRest>>

----------------------------------------------------------------------------
\* engine, static, ml: what the constructors NewEngine calls compile and load,
\* counted over the engines of one process.  The rule and model files are
\* present (embedded).

\* The number of engines constructed in the process.
MaxEngines == 2

Resources == {"regex", "yara", "bayes_model", "svm_info", "svm_model"}

LoadInit ==
    /\ loads = [r \in Resources |-> 0]
    /\ regexCompileOnce = FALSE
    /\ enginesBuilt = <<>>

LoadIdle ==
    /\ loads = <<>>
    /\ regexCompileOnce = FALSE
    /\ enginesBuilt = <<>>

\* The analyzers whose constructor NewEngine calls.
Constructed(enabledSet, astMgr) ==
    {n \in enabledSet \cap AnalyzerNames : ~(n \in astRequiredBy /\ ~astMgr)}

\* How often one NewEngine compiles or loads resource r: initializeRegexRules
\* under regexCompileOnce, NewYaraAnalyzer, NewBayesWordsAnalyzer (also called
\* by NewSvmProssesAnalyzer), and the SVM info and model files.
LoadsOf(r, made, once) ==
    CASE r = "regex" -> IF "regex" \in made /\ ~once THEN 1 ELSE 0
      [] r = "yara" -> IF "yara" \in made THEN 1 ELSE 0
      [] r = "bayes_model" -> (IF "bayes_words" \in made THEN 1 ELSE 0)
                              + (IF "svm_prosses" \in made THEN 1 ELSE 0)
      [] r = "svm_info" -> IF "svm_prosses" \in made THEN 1 ELSE 0
      [] r = "svm_model" -> IF "svm_prosses" \in made THEN 1 ELSE 0

\* NewEngine as far as initialization goes: NewPhpAstManager (StartBridge),
\* then the constructors of the enabled analyzers.
NewEngine_Load ==
    /\ Len(enginesBuilt) < MaxEngines
    /\ StartBridge
    /\ \E enabledSet \in EnabledConfigs :
         LET astMgr == startCalls'[Len(startCalls')].err = ""
             made == Constructed(enabledSet, astMgr)
         IN  /\ loads' = [r \in Resources |-> loads[r] + LoadsOf(r, made, regexCompileOnce)]
             /\ regexCompileOnce' = (regexCompileOnce \/ "regex" \in made)
             /\ enginesBuilt' = Append(enginesBuilt, enabledSet)

----------------------------------------------------------------------------
\* One call of a function: callArgs are drawn in the initial state, the call
\* sets callRet.

CallIdle ==
    /\ callArgs = <<>>
    /\ callRet = Nil

WalkIdle ==
    /\ walkPc = "off"
    /\ walkFn = ""
    /\ walkAst = JNull
    /\ ckStack = <<>>
    /\ ckWords = <<>>
    /\ ckCallable = FALSE
    /\ opQueue = <<>>
    /\ opSerial = <<>>
    /\ opResult = <<>>

ShutIdle == cleanupCalls = 0

callRest == <<scoreVars, engineVars, fileVars, bridgeVars, scanVars, phpVars, loadVars,
              walkVars, shutVars>>

AllIdle ==
    /\ ScoreIdle /\ EngineIdle /\ BridgeIdle /\ ScanIdle /\ PhpIdle /\ LoadIdle
    /\ WalkIdle /\ ShutIdle

----------------------------------------------------------------------------
\* engine: findFiles over a file tree.  Paths are absolute and clean; a path
\* is named by a number, 0 for a path that does not exist:
\*   1 /r            directory
\*   2 /r/a.php      file
\*   3 /r/d          directory
\*   4 /r/d/b.PHP    file
\*   5 /r/d/c.txt    file
\*   6 /r/d/e.php    directory
\*   7 /r/d/e.php/f.php  file
\* filepath.Walk visits the entries of a directory in lexical order, which is
\* the order of the numbers.

FsNodes == 1..7

FsParent(n) ==
    CASE n = 1 -> 0
      [] n \in {2, 3} -> 1
      [] n \in {4, 5, 6} -> 3
      [] n = 7 -> 6

FsIsDir(n) == n \in {1, 3, 6}

\* strings.ToLower(filepath.Ext(path)) == ".php"
FsIsPhp(n) == n \in {2, 4, 6, 7}

RECURSIVE FsChildrenFrom(_, _)
FsChildrenFrom(n, k) ==
    IF k > 7 THEN <<>>
    ELSE IF FsParent(k) = n THEN <<k>> \o FsChildrenFrom(n, k + 1)
    ELSE FsChildrenFrom(n, k + 1)

FsChildren(n) == FsChildrenFrom(n, 1)

\* The walk function of findFiles applied to the entries in todo, in order;
\* st is [files, processedPaths].  An excluded directory is not descended
\* into (filepath.SkipDir).
RECURSIVE walkEntries(_, _, _)
walkEntries(todo, exclusionPatterns, st) ==
    IF todo = <<>> THEN st
    ELSE LET n == Head(todo)
             rest == Tail(todo)
         IN  IF n \in exclusionPatterns
             THEN walkEntries(rest, exclusionPatterns,
                     IF FsIsDir(n)
                     THEN [st EXCEPT !.processedPaths = @ \cup {n}]
                     ELSE st)
             ELSE IF ~FsIsDir(n)
             THEN walkEntries(rest, exclusionPatterns,
                     IF n \in st.processedPaths THEN st
                     ELSE IF FsIsPhp(n)
                     THEN [files |-> Append(st.files, n),
                           processedPaths |-> st.processedPaths \cup {n}]
                     ELSE st)
             ELSE walkEntries(FsChildren(n) \o rest, exclusionPatterns,
                     [st EXCEPT !.processedPaths = @ \cup {n}])

\* The loop of findFiles over the targets.
RECURSIVE findFilesFrom(_, _, _)
findFilesFrom(paths, exclusionPatterns, st) ==
    IF paths = <<>> THEN st
    ELSE LET cleanPath == Head(paths)
             marked == [st EXCEPT !.processedPaths = @ \cup {cleanPath}]
         IN  findFilesFrom(Tail(paths), exclusionPatterns,
               IF cleanPath \in st.processedPaths THEN st
               ELSE IF cleanPath \in exclusionPatterns THEN marked
               ELSE IF cleanPath = 0 THEN marked
               ELSE IF FsIsDir(cleanPath)
               THEN LET w == walkEntries(<<cleanPath>>, exclusionPatterns, st)
                    IN  [w EXCEPT !.processedPaths = @ \cup {cleanPath}]
               ELSE IF FsIsPhp(cleanPath)
               THEN [files |-> Append(st.files, cleanPath),
                     processedPaths |-> st.processedPaths \cup {cleanPath}]
               ELSE marked)

findFiles(paths, exclusions) ==
    findFilesFrom(paths, exclusions, [files |-> <<>>, processedPaths |-> {}]).files

\* The number of targets, and of exclusions, at most.
MaxTargets == 2

FindInit ==
    /\ callArgs \in {<<paths, exclusions>> :
                       paths \in SeqsUpTo(0..7, MaxTargets),
                       exclusions \in {e \in SUBSET FsNodes : Cardinality(e) <= MaxTargets}}
    /\ callRet = Nil

findFilesCall ==
    /\ callRet = Nil
    /\ callRet' = Some(findFiles(callArgs[1], callArgs[2]))
    /\ UNCHANGED <<callArgs, callRest>>

----------------------------------------------------------------------------
\* engine: generateReport, the choice of the reporter and the outcome.

\* strings.ToLower on the extensions and formats used here.
ToLower(str) ==
    CASE str = ".HTML" -> ".html"
      [] str = ".Json" -> ".json"
      [] str = "HTML" -> "html"
      [] OTHER -> str

\* The extensions of the output path ("" for none), and the configured formats.
OutputExts == {"", ".html", ".HTML", ".json", ".Json", ".console", ".txt", ".xml"}
OutputFormats == {"console", "html", "HTML", "json", ""}

\* generateReport(results, task): pathGiven is task.ReportPath != "", ext is
\* filepath.Ext(task.ReportPath), format is e.config.Output.Format, and
\* writeFails is whether reporter.Generate returns an error.  The result names
\* the reporter whose Generate is called ("none" if none is) and the error.
selectReporter(pathGiven, ext, format, writeFails) ==
    LET outputFormat == ToLower(format)
        outputExt == ToLower(ext)
        chosen ==
            IF pathGiven
            THEN CASE outputExt = ".html" -> "html"
                   [] outputExt = ".json" -> "json"
                   [] outputExt \in {".console", ".txt", ""} -> "console"
                   [] OTHER -> IF outputFormat = "html" THEN "none" ELSE "console"
            ELSE CASE outputFormat = "html" -> "html"
                   [] outputFormat = "json" -> "json"
                   [] OTHER -> "console"
    IN  IF chosen = "none"
        THEN [reporter |-> "none",
              err |-> "cannot generate HTML report without a valid output path"]
        ELSE [reporter |-> chosen,
              err |-> IF writeFails THEN "failed to generate report" ELSE ""]

ReportInit ==
    /\ callArgs \in BOOLEAN \X OutputExts \X OutputFormats \X BOOLEAN
    /\ callArgs[1] \/ callArgs[2] = ""
    /\ callRet = Nil

generateReportCall ==
    /\ callRet = Nil
    /\ callRet' = Some(selectReporter(callArgs[1], callArgs[2], callArgs[3], callArgs[4]))
    /\ UNCHANGED <<callArgs, callRest>>

----------------------------------------------------------------------------
\* config: LoadConfig, and main up to NewEngine.

DefaultConcurrencyConfig == 8

\* GetDefaultConfig()
GetDefaultConfig ==
    [Concurrency |-> DefaultConcurrencyConfig,
     Format |-> "console",
     EnabledAnalyzers |-> <<"regex", "yara", "statistical", "bayes_words", "svm_prosses">>]

\* The embedded config.yaml and the file at configPath: "absent"/"missing",
\* "unreadable", "invalid" (not YAML), or "valid" with the content below.
EmbeddedStates == {"absent", "valid", "invalid"}
DiskStates == {"missing", "unreadable", "valid", "invalid"}

ConfigContents ==
    {[Concurrency |-> c, Format |-> f, EnabledAnalyzers |-> a] :
        c \in {0, 4}, f \in {"json", "html"}, a \in {<<>>, <<"regex", "yara">>}}

\* LoadConfig(configPath): [cfg, err], cfg Nil for a nil pointer.
LoadConfig(embedded, disk, content) ==
    IF embedded = "absent" /\ disk = "missing"
    THEN [cfg |-> Some(GetDefaultConfig), err |-> ""]
    ELSE IF embedded = "absent" /\ disk = "unreadable"
    THEN [cfg |-> Nil, err |-> "read failed"]
    ELSE IF (embedded = "invalid") \/ (embedded = "absent" /\ disk = "invalid")
    THEN [cfg |-> Nil, err |-> "parse failed"]
    ELSE [cfg |-> Some(content), err |-> ""]

\* main: LoadConfig, Fatalf when it returns an error and no config, then the
\* -format flag ("" when not given) overrides the format.
mainLoadConfig(embedded, disk, content, formatFlag) ==
    LET l == LoadConfig(embedded, disk, content)
    IN  IF l.err # "" /\ ~l.cfg.some
        THEN [loaded |-> l, startup |-> "fatal", cfg |-> Nil]
        ELSE [loaded |-> l, startup |-> "ok",
              cfg |-> IF formatFlag # ""
                      THEN Some([l.cfg.val EXCEPT !.Format = formatFlag])
                      ELSE l.cfg]

ConfigInit ==
    /\ callArgs \in EmbeddedStates \X DiskStates \X ConfigContents \X {"", "json"}
    /\ callRet = Nil

mainLoadConfigCall ==
    /\ callRet = Nil
    /\ callRet' = Some(mainLoadConfig(callArgs[1], callArgs[2], callArgs[3], callArgs[4]))
    /\ UNCHANGED <<callArgs, callRest>>

----------------------------------------------------------------------------
\* ml: SvmProssesAnalyzer, validateModel and predict.  A raw decision value
\* is an integer; the calibrated sigmoid is increasing, so the sigmoid score
\* reaches calibration.OptimalThreshold exactly when the raw value reaches
\* rawThreshold.  A validation sample is [raw, hasValue, ExpectedClass]: raw is
\* what PredictValues yields for its features, hasValue whether it yields any.

\* The number of validation samples, at most.
MaxSamples == 2

ValidationSamples ==
    {[raw |-> r, hasValue |-> h, ExpectedClass |-> c] :
        r \in {-1, 0, 1}, h \in {TRUE}, c \in {"normal", "webshell"}}
    \cup {[raw |-> 0, hasValue |-> FALSE, ExpectedClass |-> "webshell"]}

predictedClass(raw, rawThreshold) ==
    IF raw >= rawThreshold THEN "webshell" ELSE "normal"

\* The loop of validateModel over the first n samples:
\* [correctCount, totalCount, validationPassed].
RECURSIVE validateLoop(_, _, _)
validateLoop(samples, n, rawThreshold) ==
    IF n = 0
    THEN [correctCount |-> 0, totalCount |-> 0, validationPassed |-> TRUE]
    ELSE LET prev == validateLoop(samples, n - 1, rawThreshold)
             sample == samples[n]
             isCorrect == predictedClass(sample.raw, rawThreshold) = sample.ExpectedClass
             expectedSignDirection == IF sample.ExpectedClass = "normal" THEN -1 ELSE 1
             actualSignDirection == IF sample.raw < 0 THEN -1 ELSE 1
         IN  IF ~sample.hasValue THEN prev
             ELSE IF isCorrect
             THEN [prev EXCEPT !.correctCount = @ + 1, !.totalCount = @ + 1]
             ELSE [prev EXCEPT !.totalCount = @ + 1,
                               !.validationPassed =
                                    @ /\ expectedSignDirection = actualSignDirection]

\* validateModel on analyzer s.
validateModel(s, samples, rawThreshold) ==
    IF ~s.isInitialized \/ ~s.model
    THEN s
    ELSE IF Len(samples) = 0
    THEN [s EXCEPT !.validationPerformed = TRUE]
    ELSE LET v == validateLoop(samples, Len(samples), rawThreshold)
             lowAccuracy == v.totalCount > 0 /\ 2 * v.correctCount < v.totalCount
         IN  [s EXCEPT !.validationPerformed = TRUE,
                       !.validationPassed = v.validationPassed /\ ~lowAccuracy]

\* NewSvmProssesAnalyzer once the model is loaded: validateModel is called,
\* then isInitialized is set.
NewSvmProssesAnalyzer(samples, rawThreshold) ==
    LET analyzer == [isInitialized |-> FALSE, model |-> TRUE,
                     validationPerformed |-> FALSE, validationPassed |-> FALSE]
        validated == validateModel(analyzer, samples, rawThreshold)
    IN  [validated EXCEPT !.isInitialized = TRUE]

\* predict: the raw decision value handed to the sigmoid.
predict(s, raw) ==
    IF s.validationPerformed /\ ~s.validationPassed THEN 0 - raw ELSE raw

SvmInit ==
    /\ callArgs \in SeqsUpTo(ValidationSamples, MaxSamples) \X {0, 1} \X {-1, 1}
    /\ callRet = Nil

\* The analyzer is constructed and predict is called once.
SvmConstructAndPredict ==
    /\ callRet = Nil
    /\ LET s == NewSvmProssesAnalyzer(callArgs[1], callArgs[2])
       IN  callRet' = Some([analyzer |-> s, rawScore |-> predict(s, callArgs[3])])
    /\ UNCHANGED <<callArgs, callRest>>

----------------------------------------------------------------------------
\* Spec: NewEngine, then the files of one Scan, one after the other.

Init == EngineInit /\ ScoreIdle /\ BridgeIdle /\ ScanIdle /\ PhpIdle /\ LoadIdle /\ CallIdle /\ WalkIdle /\ ShutIdle
Next ==
    \/ NewEngine
    \/ ScanStatError
    \/ scanFileBegin
    \/ scanFileAnalyze
    \/ scanFileFinish
    \/ monitorExit
Spec == Init /\ [][Next]_vars

\* SpecBridge: concurrent GetAST callers on one manager.

InitBridge == BridgeInit /\ BridgeManagerInit /\ ScoreIdle /\ ScanIdle /\ PhpIdle /\ LoadIdle /\ CallIdle /\ WalkIdle /\ ShutIdle
NextBridge ==
    \/ \E c \in Callers : GetAST_Enter(c)
    \/ \E g \in comm : Comm_Write(g)
    \/ \E g \in comm : Comm_ReadLen(g)
    \/ \E g \in comm : Comm_ReadData(g)
    \/ \E c \in Callers : GetAST_Return(c)
    \/ \E c \in Callers : GetAST_Timeout(c)
    \/ Parser_Serve
    \/ Parser_Exit
    \/ monitorExit_Recv
    \/ monitorExit_Set
SpecBridge == InitBridge /\ [][NextBridge]_vars

\* SpecScan: one Scan over the paths findFiles returned.

InitScan == ScanInit /\ ScoreIdle /\ EngineIdle /\ BridgeIdle /\ PhpIdle /\ LoadIdle /\ CallIdle /\ WalkIdle /\ ShutIdle
NextScan ==
    \/ Scan_Start
    \/ Scan_Stat
    \/ Scan_Go
    \/ \E i \in 1..filesToScan : Worker_scanFile(i)
    \/ \E i \in 1..filesToScan : Worker_Send(i)
    \/ \E i \in 1..filesToScan : Worker_Release(i)
    \/ \E i \in 1..filesToScan : Worker_Done(i)
    \/ Scan_Wait
    \/ Scan_Drain
    \/ Scan_Report
SpecScan == InitScan /\ [][NextScan]_vars

\* SpecPhp: StartBridge and StopBridge calls in any order.

InitPhp == PhpInit /\ ScoreIdle /\ EngineIdle /\ BridgeIdle /\ ScanIdle /\ LoadIdle /\ CallIdle /\ WalkIdle /\ ShutIdle
NextPhp ==
    \/ StartBridge /\ UNCHANGED loadVars
    \/ StopBridge /\ UNCHANGED loadVars
    \/ Php_ExecuteReturns /\ UNCHANGED loadVars
    \/ Php_MonitorTakes /\ UNCHANGED loadVars
SpecPhp == InitPhp /\ [][NextPhp]_vars

\* SpecLoad: the engines of one process are constructed.

InitLoad == LoadInit /\ PhpInit /\ ScoreIdle /\ EngineIdle /\ BridgeIdle /\ ScanIdle /\ CallIdle /\ WalkIdle /\ ShutIdle
NextLoad == NewEngine_Load
SpecLoad == InitLoad /\ [][NextLoad]_vars

\* SpecFind: one findFiles call.

InitFind == FindInit /\ AllIdle
NextFind == findFilesCall
SpecFind == InitFind /\ [][NextFind]_vars

\* SpecReport: one generateReport call.

InitReport == ReportInit /\ AllIdle
NextReport == generateReportCall
SpecReport == InitReport /\ [][NextReport]_vars

\* SpecConfig: one start of main up to the loaded configuration.

InitConfig == ConfigInit /\ AllIdle
NextConfig == mainLoadConfigCall
SpecConfig == InitConfig /\ [][NextConfig]_vars

\* SpecSvm: one SVM analyzer is constructed with a loaded model and predicts.

InitSvm == SvmInit /\ AllIdle
NextSvm == SvmConstructAndPredict
SpecSvm == InitSvm /\ [][NextSvm]_vars

\* SpecScore: the scorer alone.

InitScore == ScoreInit /\ EngineIdle /\ BridgeIdle /\ ScanIdle /\ PhpIdle /\ LoadIdle /\ CallIdle /\ WalkIdle /\ ShutIdle
NextScore == ScoreCall
SpecScore == InitScore /\ [][NextScore]_vars

----------------------------------------------------------------------------
\* C1: for every combination of presence of a regex, a yara, an svm_prosses
\* finding with confidence > 0.91 and a statistical finding, and either value
\* of callable, CalculateScore returns the risk level of
\* min(5, [regex] + [yara] + 2*[regex and yara] + 2*[callable and svm > 0.91]
\* + 2*[callable and statistical]) under 0 -> None, 1-2 -> Low, 3 -> Medium,
\* 4 -> High, >= 5 -> Critical; other analyzers' findings add 0.

HasFinding(findings, name) ==
    \E i \in 1..Len(findings) : findings[i].AnalyzerName = name

HasHighSvm(findings) ==
    \E i \in 1..Len(findings) :
        /\ findings[i].AnalyzerName = "svm_prosses"
        /\ findings[i].Confidence > 91

B2N(b) == IF b THEN 1 ELSE 0

TruthTableScore(findings, isCallable) ==
    Min(5, B2N(HasFinding(findings, "regex"))
           + B2N(HasFinding(findings, "yara"))
           + 2 * B2N(HasFinding(findings, "regex") /\ HasFinding(findings, "yara"))
           + 2 * B2N(isCallable /\ HasHighSvm(findings))
           + 2 * B2N(isCallable /\ HasFinding(findings, "statistical")))

TruthTableRisk(s) ==
    IF s = 0 THEN RiskNone
    ELSE IF s \in 1..2 THEN RiskLow
    ELSE IF s = 3 THEN RiskMedium
    ELSE IF s = 4 THEN RiskHigh
    ELSE RiskCritical

----------------------------------------------------------------------------
\* C2: in scanFile an analyzer contributes a finding only if every feature key
\* it declares is present in the file's feature set (statistical: vector
\* non-null; ast_words, ast_op_sequence, raw_ast: field non-null; callable:
\* always present); an analyzer with an unsatisfied or unknown key is never
\* invoked for that file.

PresenceRule(key, fs) ==
    \/ key = "statistical" /\ fs.Statistical.some
    \/ key = "ast_words" /\ fs.ASTWords.some
    \/ key = "ast_op_sequence" /\ fs.ASTOpSequence.some
    \/ key = "raw_ast" /\ fs.RawAST.t # "null"
    \/ key = "callable"

Satisfied(name, fs) ==
    \A i \in 1..Len(RequiredFeatures(name)) : PresenceRule(RequiredFeatures(name)[i], fs)

C2_Gating ==
    /\ \A name \in fInvoked : Satisfied(name, fFeatureSet.val)
    /\ \A i \in 1..Len(fFindings) :
          /\ fFindings[i].AnalyzerName \in fInvoked
          /\ Satisfied(fFindings[i].AnalyzerName, fFeatureSet.val)

\* A file is done for which statistical ran and svm_prosses, registered, was
\* skipped because ast_words is absent.
C2_Witness ==
    /\ fpc = "done"
    /\ fFeatureSet.some
    /\ "statistical" \in fInvoked
    /\ "svm_prosses" \in engine.val.analyzers
    /\ "svm_prosses" \notin fInvoked
    /\ fFeatureSet.val.Statistical.some
    /\ ~fFeatureSet.val.ASTWords.some

----------------------------------------------------------------------------
\* C3: at every moment at most one request/response round trip is in progress
\* on the parser pipes: no request is written while the communication of an
\* earlier request has not finished, for any number of concurrent callers and
\* also after calls that ended by timeout.

RoundTripsInProgress == {g \in comm : g.pc \in {"readLen", "readData"}}

C3_OneRoundTrip == Cardinality(RoundTripsInProgress) <= 1

----------------------------------------------------------------------------
\* C4: a GetAST call that times out fails only that call: every other call
\* whose request the parser answers returns the tree the parser produced for
\* that call's own source.

C4_OwnTree ==
    \A c \in Callers : lastRes[c].k = "tree" => lastRes[c].src = lastRes[c].call

----------------------------------------------------------------------------
\* C5: after a GetAST call fails by timeout or by transport failure the
\* manager is marked inactive, and every later GetAST call returns an error
\* without writing anything to the request pipe.

C5_InactiveAfterFailure ==
    \A c \in Callers :
        (lastRes[c].k = "err" /\ lastRes[c].kind \in {"timeout", "transport"})
            => ~isActive

----------------------------------------------------------------------------
\* C6: when the parser bridge cannot start, NewEngine still registers every
\* enabled analyzer that declares no tree-derived feature (regex, yara) and
\* Scan still runs them on every file.

C6_NonTreeAnalyzersRegistered ==
    (engine.some /\ startFails) =>
        \A name \in {"regex", "yara"} :
            (name \in cfgEnabled /\ name \notin engine.val.initErrs)
                => name \in engine.val.analyzers

----------------------------------------------------------------------------
\* C7: when the parser reports a parse failure for a file (a length-0 response
\* or a payload with a reason field), scanFile still computes the statistical
\* features, invokes the registered regex and yara analyzers, does not invoke
\* bayes_words or svm_prosses, and produces a result with no error whose risk
\* is the scorer's output; the bridge stays active.

ParseFailure(reply) ==
    \/ reply.k = "len0"
    \/ /\ reply.k = "data"
       /\ reply.payload.t = "obj"
       /\ HasKey(reply.payload.m, "reason")
       /\ ~HasKey(reply.payload.m, "ast")

C7_ParseFailureKeepsScanning ==
    (fpc \in {"analyze", "done"} /\ ParseFailure(fReply)) =>
        /\ fFeatureSet.val.Statistical.some
        /\ isActive
        /\ fInvoked \cap {"bayes_words", "svm_prosses"} = {}
        /\ fpc = "done" =>
              /\ fResult.some
              /\ fResult.val.Error = ""
              /\ ({"regex", "yara"} \cap engine.val.analyzers) \subseteq fInvoked
              /\ fResult.val.OverallRisk =
                    TruthTableRisk(TruthTableScore(fResult.val.Findings, FALSE))

\* A file whose parse failed with a reason payload is done with a regex and a
\* yara finding (risk High).
C7_Witness ==
    /\ fpc = "done"
    /\ fReply = [k |-> "data", payload |-> PayloadReason]
    /\ {"regex", "yara"} \subseteq fInvoked
    /\ fResult.val.OverallRisk = RiskHigh
    /\ isActive

----------------------------------------------------------------------------
\* C8: Scan invokes the reporter only after every started worker has
\* finished, and the result list it passes holds exactly one result for each
\* path findFiles returned, for every concurrency and completion order.

ResultsFor(res, i) == {k \in DOMAIN res : res[k].path = i}

C8_ReportAfterAllWorkers ==
    reported.some =>
        /\ \A i \in 1..filesToScan : wpc[i] \in {"none", "exited"}
        /\ Len(reported.val) = filesToScan
        /\ \A i \in 1..filesToScan : Cardinality(ResultsFor(reported.val, i)) = 1

\* A report of five results, some from the stat check and some from workers
\* that did not finish in path order.
C8_Witness ==
    /\ reported.some
    /\ filesToScan = NumFiles
    /\ \E k \in DOMAIN reported.val : reported.val[k].statErr
    /\ \E j, k \in DOMAIN reported.val :
          /\ j < k
          /\ ~reported.val[j].statErr /\ ~reported.val[k].statErr
          /\ reported.val[j].path > reported.val[k].path

----------------------------------------------------------------------------
\* C9: during Scan the number of scanFile executions in progress never
\* exceeds the configured concurrency, a configured value <= 0 counting as 4.

InScanFile == {i \in 1..filesToScan : wpc[i] = "scan"}

C9_ConcurrencyBound ==
    Cardinality(InScanFile) <= (IF cfgConcurrency <= 0 THEN 4 ELSE cfgConcurrency)

\* Four scanFile executions in progress under a configured concurrency of 0,
\* with the loop waiting for a token for the fifth path.
C9_Witness ==
    /\ cfgConcurrency <= 0
    /\ Cardinality(InScanFile) = 4
    /\ spc = "sem"

----------------------------------------------------------------------------
\* C10: for a file whose stat fails or whose size is strictly greater than
\* 10 MiB the result carries an error and no findings; for a file of size 0
\* the result has risk None, no error and no findings; in all three cases no
\* parse request is sent and no analyzer is invoked.

C10_NotScannedFiles ==
    (fpc = "done" /\ fResult.some) =>
        /\ (~fStat.some \/ (fStat.some /\ fStat.val > 10 * 1024 * 1024)) =>
              /\ fResult.val.Error # ""
              /\ fResult.val.Findings = <<>>
              /\ ~fWrote
              /\ fInvoked = {}
        /\ (fStat.some /\ fStat.val = 0) =>
              /\ fResult.val.OverallRisk = RiskNone
              /\ fResult.val.Error = ""
              /\ fResult.val.Findings = <<>>
              /\ ~fWrote
              /\ fInvoked = {}

\* An oversized file is done with an error while the bridge is active.
C10_Witness ==
    /\ fpc = "done"
    /\ fStat.some /\ fStat.val > 10 * 1024 * 1024
    /\ fResult.val.Error = "file exceeds size limit"
    /\ isActive
    /\ nFiles = 2

----------------------------------------------------------------------------
\* C11: in every result handed to the reporter the overall risk code lies in
\* [0,5], and the overall risk is Unknown (0) if and only if the result's
\* error is set; a result without an error has a risk in None..Critical.

C11_RiskCodes ==
    fResult.some =>
        /\ fResult.val.OverallRisk \in 0..5
        /\ (fResult.val.OverallRisk = 0) <=> (fResult.val.Error # "")
        /\ fResult.val.Error = "" => fResult.val.OverallRisk \in 1..5

\* A scanned file whose result has no error and the highest risk.
C11_Witness ==
    /\ fpc = "done"
    /\ fResult.some
    /\ fResult.val.Error = ""
    /\ fResult.val.OverallRisk = 5
    /\ Len(fResult.val.Findings) >= 3

----------------------------------------------------------------------------
\* C12: whenever no tree was produced for a file (bridge absent or inactive,
\* timeout, transport failure or parse failure), the feature set's callable
\* flag is false and no analyzer that declares a tree-derived requirement
\* (ast_words, callable, ast_op_sequence, raw_ast) is invoked for that file.

TreeDerivedKeys == {"ast_words", "callable", "ast_op_sequence", "raw_ast"}

DeclaresTreeDerived(name) ==
    \E i \in 1..Len(RequiredFeatures(name)) : RequiredFeatures(name)[i] \in TreeDerivedKeys

C12_NoTreeNoTreeAnalyzers ==
    (fFeatureSet.some /\ fFeatureSet.val.RawAST.t = "null") =>
        /\ ~fFeatureSet.val.Callable
        /\ \A name \in fInvoked : ~DeclaresTreeDerived(name)

----------------------------------------------------------------------------
\* C13: within one file's scan the enabled analyzers are invoked in ascending
\* order of analyzer name, so the findings of a result are in ascending order
\* of analyzer name on every run.

\* The position of an analyzer name in ascending string order.
NameRank(name) ==
    CASE name = "bayes_words" -> 1
      [] name = "regex" -> 2
      [] name = "statistical" -> 3
      [] name = "svm_prosses" -> 4
      [] name = "yara" -> 5

C13_AscendingAnalyzerOrder ==
    \A i, j \in 1..Len(fFindings) :
        i < j => NameRank(fFindings[i].AnalyzerName) < NameRank(fFindings[j].AnalyzerName)

----------------------------------------------------------------------------
\* C14: after the first StartBridge call every later StartBridge call returns
\* the same outcome as the first (the same handles, or the same error), and
\* after the first StopBridge call every later StopBridge call returns the
\* same stored result, for every order of start and stop calls, including
\* StartBridge calls made after StopBridge.

C14_StartStopIdempotent ==
    /\ \A i \in 1..Len(startCalls) : startCalls[i] = startCalls[1]
    /\ \A i \in 1..Len(stopCalls) : stopCalls[i] = stopCalls[1]

----------------------------------------------------------------------------
\* C15: for any number of engines and analyzers in one process, each of the
\* following happens at most once per process: compiling the regex list,
\* compiling the signature rules, loading each model file (Bayes word model,
\* SVM model and calibration), and initializing the parser bridge.

C15_InitializedAtMostOnce ==
    /\ \A r \in DOMAIN loads : loads[r] <= 1
    /\ initRuns <= 1

----------------------------------------------------------------------------
\* C16: for every list of targets and exclusions, no path returned by
\* findFiles equals an exclusion or lies inside a directory that equals an
\* exclusion, and every returned path is a non-directory whose extension
\* equals .php case-insensitively.

RECURSIVE FsAncestors(_)
FsAncestors(n) == IF n = 0 THEN {} ELSE {FsParent(n)} \cup FsAncestors(FsParent(n))

C16_FindFilesExclusions ==
    callRet.some =>
        \A i \in 1..Len(callRet.val) :
            LET f == callRet.val[i]
            IN  /\ f \notin callArgs[2]
                /\ FsAncestors(f) \cap callArgs[2] = {}
                /\ ~FsIsDir(f)
                /\ FsIsPhp(f)

----------------------------------------------------------------------------
\* C17: when an output path is given, the reporter is chosen by its extension
\* alone: .html selects the HTML reporter, .json the JSON reporter, and every
\* other extension (or none) the console reporter whatever the configured
\* format is; report generation then succeeds unless the reporter itself
\* fails to write.

ReporterByExtension(ext) ==
    IF ext \in {".html", ".HTML"} THEN "html"
    ELSE IF ext \in {".json", ".Json"} THEN "json"
    ELSE "console"

C17_ReporterByExtension ==
    (callRet.some /\ callArgs[1]) =>
        /\ callRet.val.reporter = ReporterByExtension(callArgs[2])
        /\ (callRet.val.err = "") <=> ~callArgs[4]

----------------------------------------------------------------------------
\* C18: LoadConfig yields the default configuration (concurrency 8, console
\* format, all five analyzers enabled) both when the configuration is missing
\* and when it is invalid (unreadable or not parseable as YAML); in neither
\* case does startup fail.

ConfigMissing == callArgs[1] = "absent" /\ callArgs[2] = "missing"

ConfigInvalid ==
    \/ callArgs[1] = "invalid"
    \/ callArgs[1] = "absent" /\ callArgs[2] \in {"unreadable", "invalid"}

C18_DefaultsOnMissingOrInvalid ==
    (callRet.some /\ (ConfigMissing \/ ConfigInvalid)) =>
        /\ callRet.val.startup = "ok"
        /\ callRet.val.loaded.cfg.some
        /\ callRet.val.loaded.cfg.val.Concurrency = 8
        /\ callRet.val.loaded.cfg.val.Format = "console"
        /\ Len(callRet.val.loaded.cfg.val.EnabledAnalyzers) = 5

----------------------------------------------------------------------------
\* C19: for every list of findings F, every finding f and a fixed callable
\* flag, the score CalculateScore computes for F plus f is greater than or
\* equal to the score it computes for F, and so is the risk level.

RemoveAt(seq, i) == SubSeq(seq, 1, i - 1) \o SubSeq(seq, i + 1, Len(seq))

C19_ScoreMonotone ==
    scRisk.some =>
        \A i \in 1..Len(scFindings) :
            /\ TotalScore(RemoveAt(scFindings, i), scFeatureSet)
                  <= TotalScore(scFindings, scFeatureSet)
            /\ CalculateScore(RemoveAt(scFindings, i), scFeatureSet) <= scRisk.val

\* The scorer has been applied to regex followed by yara, where the added
\* finding raises the score from 1 to 4, and to a list that ends with an
\* svm_prosses finding below the threshold after one above it.
C19_Witness ==
    /\ scRisk.some
    /\ Len(scFindings) = 4
    /\ scFindings[1].AnalyzerName = "regex" /\ scFindings[2].AnalyzerName = "yara"
    /\ scFindings[3].AnalyzerName = "svm_prosses" /\ scFindings[3].Confidence = 92
    /\ scFindings[4].AnalyzerName = "svm_prosses" /\ scFindings[4].Confidence = 91
    /\ scFeatureSet.some /\ scFeatureSet.val.Callable
    /\ TotalScore(SubSeq(scFindings, 1, 1), scFeatureSet) = 1
    /\ TotalScore(SubSeq(scFindings, 1, 2), scFeatureSet) = 4
    /\ scRisk.val = RiskCritical

----------------------------------------------------------------------------
\* C20: when the SVM analyzer is constructed with a loaded model,
\* validateModel re-runs prediction on every validation sample; if fewer than
\* 50% of them are classified as their expectedClass, or a misclassified
\* sample's raw decision sign disagrees with its expected class, the reversal
\* flag is set (validation performed and not passed) and every later predict
\* call negates the raw decision value before applying the sigmoid.

Classified(samples) == {i \in 1..Len(samples) : samples[i].hasValue}

CorrectlyClassified(samples, rawThreshold) ==
    {i \in Classified(samples) :
        (samples[i].raw >= rawThreshold) = (samples[i].ExpectedClass = "webshell")}

SignDisagrees(sample) ==
    (sample.raw < 0) = (sample.ExpectedClass = "webshell")

ShouldReverse(samples, rawThreshold) ==
    \/ /\ Classified(samples) # {}
       /\ 2 * Cardinality(CorrectlyClassified(samples, rawThreshold))
             < Cardinality(Classified(samples))
    \/ \E i \in Classified(samples) \ CorrectlyClassified(samples, rawThreshold) :
          SignDisagrees(samples[i])

C20_ValidationSetsReversal ==
    (callRet.some /\ ShouldReverse(callArgs[1], callArgs[2])) =>
        /\ callRet.val.analyzer.validationPerformed
        /\ ~callRet.val.analyzer.validationPassed
        /\ callRet.val.rawScore = 0 - callArgs[3]

----------------------------------------------------------------------------
\* ml: SvmProssesAnalyzer, the calibration descriptor and the feature vector.
\* Feature values and the per-feature statistics are integers in hundredths;
\* clamping and standardizing do not depend on the unit.  A standardized value
\* is a fraction [num, den] with den > 0.  The sigmoid parameters a and b are
\* whole numbers, the optimal threshold is in hundredths.

Rat(n, d) == [num |-> n, den |-> d]
RatEq(p, q) == p.num * q.den = q.num * p.den

\* The number of features the analyzer names (featureNames of the constructor).
FeatureCount == 9

\* json.Unmarshal of the info file into analyzer.calibration: every field is
\* what the file holds, a missing field is the zero value (an empty slice, 0).
CalibrationInfo(numFeatures, mins, maxs, means, stds, a, b, optimalThreshold) ==
    [NumFeatures |-> numFeatures,
     FeatureStats |-> [Mins |-> mins, Maxs |-> maxs, Means |-> means, Stds |-> stds],
     SigmoidParams |-> [A |-> a, B |-> b],
     OptimalThreshold |-> optimalThreshold]

\* loadCalibrationInfo on analyzer s: the guards on a parsed descriptor.  The
\* feature names are left out; err is "" for nil.
loadCalibrationInfo(s) ==
    LET c == s.calibration
        a1 == IF c.SigmoidParams.A = 0 THEN 1 ELSE c.SigmoidParams.A
        t1 == IF c.OptimalThreshold <= 0 \/ c.OptimalThreshold >= 100
              THEN 50 ELSE c.OptimalThreshold
        guarded == [c EXCEPT !.SigmoidParams.A = a1, !.OptimalThreshold = t1]
    IN  IF c.NumFeatures = 0
        THEN [analyzer |-> s, err |-> "calibration incomplete"]
        ELSE IF Len(c.FeatureStats.Means) < c.NumFeatures
        THEN [analyzer |-> [s EXCEPT !.calibration = guarded], err |-> "means missing"]
        ELSE IF Len(c.FeatureStats.Stds) < c.NumFeatures
        THEN [analyzer |-> [s EXCEPT !.calibration = guarded], err |-> "stds missing"]
        ELSE [analyzer |-> [s EXCEPT !.calibration = guarded], err |-> ""]

\* The info file as the constructor finds it, and the model file.
InfoStates == {"ok", "missing", "invalid"}
ModelStates == {"loaded", "missing", "nil"}

\* NewSvmProssesAnalyzer, from the info file to isInitialized.  The info
\* file is parsed by json.Unmarshal straight into analyzer.calibration;
\* loadCalibrationInfo is not called.  The validation samples are those of
\* ValidationSamples above; validateModel returns at once (isInitialized is
\* still false), so the flags stay false.
NewSvmProssesAnalyzerOf(infoState, calibration, modelState) ==
    LET zero == CalibrationInfo(0, <<>>, <<>>, <<>>, <<>>, 0, 0, 0)
        analyzer == [isInitialized |-> FALSE, model |-> FALSE,
                     validationPerformed |-> FALSE, validationPassed |-> FALSE,
                     calibration |-> zero]
        parsed == [analyzer EXCEPT !.calibration = calibration]
    IN  IF infoState # "ok" THEN analyzer
        ELSE IF modelState # "loaded" THEN parsed
        ELSE [validateModel([parsed EXCEPT !.model = TRUE], <<>>, 0)
                 EXCEPT !.isInitialized = TRUE]

\* normalizeFeature(value, meanIdx, stdIdx); the indices are those of Go,
\* counted from 0.
normalizeFeature(s, value, meanIdx, stdIdx) ==
    LET st == s.calibration.FeatureStats
    IN  IF Len(st.Means) <= meanIdx \/ Len(st.Stds) <= stdIdx
        THEN Rat(value, 100)
        ELSE LET mean == st.Means[meanIdx + 1]
                 std == st.Stds[stdIdx + 1]
                 \* twice the value after the truncation of extreme values
                 value2 ==
                    IF Len(st.Mins) > meanIdx /\ Len(st.Maxs) > meanIdx
                    THEN LET min == st.Mins[meanIdx + 1]
                             max == st.Maxs[meanIdx + 1]
                             extendedMin2 == 2 * min - (max - min)
                             extendedMax2 == 2 * max + (max - min)
                         IN  IF 2 * value < extendedMin2 THEN extendedMin2
                             ELSE IF 2 * value > extendedMax2 THEN extendedMax2
                             ELSE 2 * value
                    ELSE 2 * value
             IN  IF std > 0 THEN Rat(value2 - 2 * mean, 2 * std) ELSE Rat(0, 1)

\* The default of bayesScore in extractFeatures, in hundredths.
DefaultBayesScore == 50

\* extractFeatures: statFeatures is the sequence LM, LVC, WM, WVC, SR, TR,
\* SPL, IE; bayesScore is the confidence of the Bayes finding, or Nil.
extractFeatures(s, statFeatures, bayesFinding) ==
    LET bayesScore == IF bayesFinding.some THEN bayesFinding.val ELSE DefaultBayesScore
    IN  [i \in 1..FeatureCount |->
            IF i < FeatureCount
            THEN normalizeFeature(s, statFeatures[i], i - 1, i)
            ELSE normalizeFeature(s, bayesScore, 8, 9)]

\* 100 / (1 + exp(-x)) rounded down, for a whole x.
SigmoidPct(x) ==
    IF x <= -3 THEN 4
    ELSE IF x = -2 THEN 11
    ELSE IF x = -1 THEN 26
    ELSE IF x = 0 THEN 50
    ELSE IF x = 1 THEN 73
    ELSE IF x = 2 THEN 88
    ELSE IF x = 3 THEN 95
    ELSE 98

\* applySigmoid with the analyzer's parameters.
applySigmoid(s, rawScore) ==
    SigmoidPct(s.calibration.SigmoidParams.A * (rawScore - s.calibration.SigmoidParams.B))

\* The threshold of Analyze, in hundredths.
AnalyzeThreshold == 95

\* SvmProssesAnalyzer.Analyze with a statistical feature set present; raw is
\* the decision value PredictValues yields for the extracted features.  The
\* result is the confidence of the finding, or Nil.
SvmProssesAnalyze(s, statFeatures, bayesFinding, raw) ==
    IF ~s.isInitialized \/ ~s.model THEN Nil
    ELSE LET score == applySigmoid(s, predict(s, raw))
         IN  IF score >= AnalyzeThreshold THEN Some(score) ELSE Nil

\* The descriptors that are tried: statistic vectors that are complete with
\* a different value for every feature, complete with a zero, one short, or
\* missing.
StdsVectors ==
    {[i \in 1..9 |-> 10 * i], [i \in 1..9 |-> IF i = 4 THEN 0 ELSE 20],
     [i \in 1..8 |-> 10 * i], <<>>}
MeansVectors == {[i \in 1..9 |-> 5 * i], [i \in 1..8 |-> 5 * i], <<>>}
MinMaxVectors ==
    {[Mins |-> [i \in 1..9 |-> 0], Maxs |-> [i \in 1..9 |-> 20 * i]],
     [Mins |-> <<>>, Maxs |-> <<>>]}
StatFeatureVectors == {[i \in 1..8 |-> 30], [i \in 1..8 |-> 400 - 40 * i]}
BayesFindings == {Nil, Some(97)}
SigmoidAs == {0, 1}
OptimalThresholds == {0, 60, 100}
RawScores == {0, 3}

CalibInit ==
    /\ callArgs \in
         {<<infoState, CalibrationInfo(9, mm.Mins, mm.Maxs, means, stds, a, 0, t),
            modelState, sf, bf, raw>> :
            infoState \in InfoStates, mm \in MinMaxVectors, means \in MeansVectors,
            stds \in StdsVectors, a \in SigmoidAs, t \in OptimalThresholds,
            modelState \in ModelStates, sf \in StatFeatureVectors,
            bf \in BayesFindings, raw \in RawScores}
    /\ callRet = Nil

\* The analyzer is constructed, then extracts the features of one file and
\* analyzes it.
SvmConstructAndAnalyze ==
    /\ callRet = Nil
    /\ LET s == NewSvmProssesAnalyzerOf(callArgs[1], callArgs[2], callArgs[3])
       IN  callRet' = Some([analyzer |-> s,
                            features |-> extractFeatures(s, callArgs[4], callArgs[5]),
                            finding |-> SvmProssesAnalyze(s, callArgs[4], callArgs[5],
                                                          callArgs[6])])
    /\ UNCHANGED <<callArgs, callRest>>

\* SpecCalib: one SVM analyzer is constructed from a calibration descriptor
\* and analyzes one file.

InitCalib == CalibInit /\ AllIdle
NextCalib == SvmConstructAndAnalyze
SpecCalib == InitCalib /\ [][NextCalib]_vars

----------------------------------------------------------------------------
\* C21: when the calibration descriptor's per-feature statistics are
\* incomplete (means or stds missing or shorter than the feature count),
\* NewSvmProssesAnalyzer leaves the analyzer inactive so that Analyze returns
\* no finding; a sigmoid parameter a = 0 is replaced by 1.0 and an optimal
\* threshold outside (0,1) is replaced by 0.5 before any prediction is made.

StatisticsIncomplete(calibration) ==
    \/ Len(calibration.FeatureStats.Means) < FeatureCount
    \/ Len(calibration.FeatureStats.Stds) < FeatureCount

C21_CalibrationGuards ==
    (callRet.some /\ callArgs[1] = "ok") =>
        LET s == callRet.val.analyzer
        IN  /\ StatisticsIncomplete(callArgs[2]) =>
                  (~s.isInitialized /\ callRet.val.finding = Nil)
            /\ s.isInitialized =>
                  /\ s.calibration.SigmoidParams.A # 0
                  /\ s.calibration.OptimalThreshold > 0
                  /\ s.calibration.OptimalThreshold < 100

----------------------------------------------------------------------------
\* C22: for each of the nine features i, extractFeatures puts at index i the
\* value (clamp(x_i, min_i - 0.5*(max_i - min_i), max_i + 0.5*(max_i - min_i))
\* - mean_i) / std_i computed with that same feature's own min, max, mean and
\* std from the calibration descriptor, and 0 when std_i <= 0.

StatisticsComplete(calibration) ==
    /\ Len(calibration.FeatureStats.Means) >= FeatureCount
    /\ Len(calibration.FeatureStats.Stds) >= FeatureCount
    /\ Len(calibration.FeatureStats.Mins) >= FeatureCount
    /\ Len(calibration.FeatureStats.Maxs) >= FeatureCount

FeatureInput(i) ==
    IF i < FeatureCount THEN callArgs[4][i]
    ELSE IF callArgs[5].some THEN callArgs[5].val ELSE DefaultBayesScore

Standardized(x, min, max, mean, std) ==
    LET lo2 == 2 * min - (max - min)
        hi2 == 2 * max + (max - min)
        clamped2 == IF 2 * x < lo2 THEN lo2 ELSE IF 2 * x > hi2 THEN hi2 ELSE 2 * x
    IN  IF std <= 0 THEN Rat(0, 1) ELSE Rat(clamped2 - 2 * mean, 2 * std)

C22_OwnStatistics ==
    (callRet.some /\ callArgs[1] = "ok" /\ StatisticsComplete(callArgs[2])) =>
        \A i \in 1..FeatureCount :
            LET st == callArgs[2].FeatureStats
            IN  RatEq(callRet.val.features[i],
                      Standardized(FeatureInput(i), st.Mins[i], st.Maxs[i],
                                   st.Means[i], st.Stds[i]))

----------------------------------------------------------------------------
\* C23: a feature set distinguishes an absent component from an empty one:
\* when a tree was produced but contains no string name, the word sequence is
\* present and empty (ast_words counts as present, bayes_words returns no
\* finding and svm_prosses runs with the default bayes score), and the word
\* sequence is absent only when no tree was produced or word extraction
\* failed; likewise for the operation sequences.

TreeProduced == fFeatureSet.some /\ fFeatureSet.val.RawAST.t # "null"

C23_AbsentVsEmpty ==
    TreeProduced =>
        /\ fFeatureSet.val.ASTWords.some
        /\ fFeatureSet.val.ASTOpSequence.some
        /\ (fpc = "done" /\ fFeatureSet.val.Statistical.some) =>
              \A name \in {"bayes_words", "svm_prosses"} \cap engine.val.analyzers :
                  name \in fInvoked

----------------------------------------------------------------------------
\* features: CalculateStatisticalFeatures, and the analyzers that read the
\* file bytes.  A file content is the sequence of its characters.

\* <?php eval($_POST['x']);          one line, no line feed at the end
ContentEval ==
    << "<", "?", "p", "h", "p", " ", "e", "v", "a", "l", "(", "$", "_",
       "P", "O", "S", "T", "[", "'", "x", "'", "]", ")", ";" >>

\* the same line followed by a line feed
ContentEvalLf == ContentEval \o << "\n" >>

\* <?php echo "hi";
ContentEcho ==
    << "<", "?", "p", "h", "p", " ", "e", "c", "h", "o", " ", "\"", "h",
       "i", "\"", ";" >>

\* <?php $a = $b;
ContentAssign ==
    << "<", "?", "p", "h", "p", " ", "$", "a", " ", "=", " ", "$", "b",
       ";" >>

LowerLetters ==
    << "a", "b", "c", "d", "e", "f", "g", "h", "i", "j", "k", "l", "m",
       "n", "o", "p", "q", "r", "s", "t", "u", "v", "w", "x", "y", "z" >>
UpperLetters ==
    << "A", "B", "C", "D", "E", "F", "G", "H", "I", "J", "K", "L", "M",
       "N", "O", "P", "Q", "R", "S", "T", "U", "V", "W", "X", "Y", "Z" >>
Digits == {"0", "1", "2", "3", "4", "5", "6", "7", "8", "9"}

IsAlnum(c) ==
    \/ c \in Digits
    \/ \E i \in 1..26 : c = LowerLetters[i] \/ c = UpperLetters[i]

\* The character under (?i): an upper-case letter as its lower-case one.
Fold(c) ==
    IF \E i \in 1..26 : c = UpperLetters[i]
    THEN LowerLetters[CHOOSE i \in 1..26 : c = UpperLetters[i]]
    ELSE c

\* \s of Go's regexp: [\t\n\f\r ]
IsSpace(c) == c \in {" ", "\n", "\t", "\r", "\f"}

\* statLines: the lengths of the pieces of strings.Split(src, "\n").
RECURSIVE statLinesFrom(_, _, _)
statLinesFrom(src, i, cur) ==
    IF i > Len(src) THEN <<cur>>
    ELSE IF src[i] = "\n" THEN <<cur>> \o statLinesFrom(src, i + 1, 0)
    ELSE statLinesFrom(src, i + 1, cur + 1)

statLines(src) == statLinesFrom(src, 1, 0)

\* statWords: the lengths of the maximal runs of letters and digits.
RECURSIVE statWordsFrom(_, _, _)
statWordsFrom(src, i, l) ==
    IF i > Len(src) THEN (IF l # 0 THEN <<l>> ELSE <<>>)
    ELSE IF IsAlnum(src[i]) THEN statWordsFrom(src, i + 1, l + 1)
    ELSE IF l # 0 THEN <<l>> \o statWordsFrom(src, i + 1, 0)
    ELSE statWordsFrom(src, i + 1, 0)

statWords(src) == statWordsFrom(src, 1, 0)

RECURSIVE SumTo(_, _)
SumTo(xs, n) == IF n = 0 THEN 0 ELSE SumTo(xs, n - 1) + xs[n]

MaxOf(xs) == IF Len(xs) = 0 THEN 0 ELSE CHOOSE m \in {xs[i] : i \in 1..Len(xs)} :
                                            \A i \in 1..Len(xs) : xs[i] <= m

lineMax(src) == MaxOf(statLines(src))
wordMax(src) == MaxOf(statWords(src))

\* lineVariationCoefficient, squared: 0 for one line or a mean of 0, else
\* Variance / Mean^2, the variance being that of a sample (divisor n - 1).
lineVariationCoefficientSq(src) ==
    LET lines == statLines(src)
        n == Len(lines)
        sum == SumTo(lines, n)
        sumSq == SumTo([i \in 1..n |-> lines[i] * lines[i]], n)
    IN  IF n <= 1 \/ sum = 0 THEN Rat(0, 1)
        ELSE Rat(n * (n * sumSq - sum * sum), (n - 1) * sum * sum)

\* symbolRatio: the characters outside [a-zA-Z0-9], per cent of the length.
symbolRatio(src) ==
    IF Len(src) = 0 THEN Rat(0, 1)
    ELSE Rat(100 * Cardinality({i \in 1..Len(src) : ~IsAlnum(src[i])}), Len(src))

\* statementPerLine: the semicolons per line.
statementPerLine(src) ==
    Rat(Cardinality({i \in 1..Len(src) : src[i] = ";"}), Len(statLines(src)))

\* CalculateStatisticalFeatures: the features the default thresholds bound
\* (WVC, TR and IE have no bound); roundToSix changes none of the
\* comparisons below for the contents above.
CalculateStatisticalFeatures(content) ==
    [LM |-> lineMax(content), LVCSq |-> lineVariationCoefficientSq(content),
     WM |-> wordMax(content), SR |-> symbolRatio(content),
     SPL |-> statementPerLine(content)]

\* IsStatisticalAbnormal under GetDefaultStatisticalThresholds: minimum
\* LVC 0.1, SR 10.0, SPL 0.001; maximum LM 2048, WM 1024; a NaN bound never
\* fires.
IsStatisticalAbnormal(sf) ==
    \/ sf.LM > 2048
    \/ 100 * sf.LVCSq.num < sf.LVCSq.den
    \/ sf.WM > 1024
    \/ sf.SR.num < 10 * sf.SR.den
    \/ 1000 * sf.SPL.num < sf.SPL.den

\* The rule (?i)eval\s*\(\s*(['"]|\s*)\s*\$_(POST|GET|REQUEST|COOKIE) of
\* highRiskRegexList; none of the other rules matches one of the contents
\* above.
HasAt(src, i, word) ==
    /\ i + Len(word) - 1 <= Len(src)
    /\ \A k \in 1..Len(word) : Fold(src[i + k - 1]) = word[k]

RECURSIVE SkipSpace(_, _)
SkipSpace(src, i) ==
    IF i <= Len(src) /\ IsSpace(src[i]) THEN SkipSpace(src, i + 1) ELSE i

regexMatch(content) ==
    \E i \in 1..Len(content) :
        /\ HasAt(content, i, <<"e", "v", "a", "l">>)
        /\ LET j == SkipSpace(content, i + 4)
           IN  /\ HasAt(content, j, <<"(">>)
               /\ LET k == SkipSpace(content, j + 1)
                      q == IF k <= Len(content) /\ content[k] \in {"'", "\""}
                           THEN SkipSpace(content, k + 1) ELSE k
                  IN  \E p \in {k, q} :
                        /\ HasAt(content, p, <<"$", "_">>)
                        /\ \/ HasAt(content, p + 2, <<"p", "o", "s", "t">>)
                           \/ HasAt(content, p + 2, <<"g", "e", "t">>)
                           \/ HasAt(content, p + 2, <<"r", "e", "q", "u", "e", "s", "t">>)
                           \/ HasAt(content, p + 2, <<"c", "o", "o", "k", "i", "e">>)

\* The files that are scanned: the content and the tree the parser returns
\* for it.
ScenarioFiles ==
    {[content |-> ContentEval, ast |-> AstEval],
     [content |-> ContentEvalLf, ast |-> AstEval],
     [content |-> ContentEcho, ast |-> AstEcho],
     [content |-> ContentAssign, ast |-> AstAssign]}

\* The orders in which ranging over the analyzers map can yield the names.
AnalyzerOrders ==
    {o \in [1..5 -> AnalyzerNames] : \A i, j \in 1..5 : o[i] = o[j] => i = j}

\* The analyzer loop of scanFile over the names in the given order.
RECURSIVE runAnalyzers(_, _, _, _)
runAnalyzers(order, n, fs, inputs) ==
    IF n = 0 THEN <<>>
    ELSE LET prev == runAnalyzers(order, n - 1, fs, inputs)
             name == order[n]
         IN  IF /\ canRunAnalyzer(RequiredFeatures(name), Some(fs))
                /\ Analyze(name, fs, inputs[name]).some
             THEN Append(prev, Analyze(name, fs, inputs[name]).val)
             ELSE prev

\* scanFile from ExtractAllFeatures on, for a file the parser returned a
\* tree for and an engine with all five analyzers: yara, bayes and svm are
\* what the signature ruleset and the two models yield for the file.
scanFileWith(file, order, yara, bayes, svm) ==
    LET fs == ExtractAllFeatures(Len(file.content),
                  IsStatisticalAbnormal(CalculateStatisticalFeatures(file.content)),
                  ParseAST(PayloadAst(file.ast)).ast, TRUE)
        inputs == [name \in AnalyzerNames |->
                      CASE name = "regex" ->
                              IF regexMatch(file.content) THEN Some(90) ELSE Nil
                        [] name = "yara" -> yara
                        [] name = "bayes_words" -> bayes
                        [] name = "svm_prosses" -> svm
                        [] OTHER -> Nil]
        findings == runAnalyzers(order, 5, fs, inputs)
    IN  [FeatureSet |-> fs, Findings |-> findings,
         OverallRisk |-> CalculateScore(findings, Some(fs))]

ScenarioInit ==
    /\ callArgs \in ScenarioFiles \X {Nil, Some(100)} \X AnalyzeInputs \X AnalyzeInputs
    /\ callRet = Nil

scanFileScenario ==
    /\ callRet = Nil
    /\ \E order \in AnalyzerOrders :
          callRet' = Some(scanFileWith(callArgs[1], order, callArgs[2], callArgs[3],
                                       callArgs[4]))
    /\ UNCHANGED <<callArgs, callRest>>

\* SpecScenario: one file with a tree is scanned by all five analyzers.

InitScenario == ScenarioInit /\ AllIdle
NextScenario == scanFileScenario
SpecScenario == InitScenario /\ [][NextScenario]_vars

----------------------------------------------------------------------------
\* C24: for the single-line file <?php eval($_POST['x']); scanned with all
\* five analyzers enabled and a tree produced, the regex analyzer yields a
\* finding, and the overall risk is High (score 1+1+2=4) when the signature
\* ruleset also matches and Low otherwise.  (Checked for the runs in which
\* svm_prosses yields no finding.)

FoundBy(name) ==
    \E i \in 1..Len(callRet.val.Findings) : callRet.val.Findings[i].AnalyzerName = name

C24_EvalOverRequest ==
    (callRet.some /\ callArgs[1].content = ContentEval /\ ~FoundBy("svm_prosses")) =>
        /\ FoundBy("regex")
        /\ callRet.val.OverallRisk =
              IF FoundBy("yara") THEN RiskHigh ELSE RiskLow

----------------------------------------------------------------------------
\* ast: ParseAST, GetWordsAndCallable and GetOpSerial on one response
\* payload.

\* The number of elements of a children array, at most.
MaxChildren == 4

\* A node without children: {"kind": k, "flags": 0, "lineno": 1, "children": null}
JLeaf(k) == JNode(k, JNull)

LeafKinds == {1, 2, AST_CALL}

Leaves == {JLeaf(k) : k \in LeafKinds}

\* A statement list under a node of kind 1.
ListTrees == {JNode(1, JArr(a)) : a \in SeqsUpTo(Leaves, MaxChildren)}

\* Trees in which a node sits under a keyed mapping, under a mapping without
\* a kind, under nested sequences, or is the root; and roots that are no node.
ShapeTrees ==
    {JNode(1, JObj(<< <<"expr", x>> >>)) : x \in Leaves \cup {JStr("s"), JVar("w")}}
    \cup {JNode(2, JArr(<< JNode(1, JArr(<<x, y>>)) >>)) : x, y \in Leaves}
    \cup {JObj(<< <<"a", JArr(<<x>>)>>, <<"b", JStr("s")>> >>) : x \in Leaves}
    \cup {JArr(<<x, JArr(<<y>>)>>) : x, y \in Leaves}
    \cup Leaves
    \cup {JStr("s"), JArr(<<>>), JObj(<<>>), AstEval, AstEcho, AstAssign, AstShell}

OpsInit ==
    /\ callArgs \in {<<t>> : t \in ListTrees \cup ShapeTrees}
    /\ callRet = Nil

\* The tree of the payload {"ast": t}, then the two extractions on it, as
\* ExtractAllFeatures calls them.
ExtractFromTree ==
    /\ callRet = Nil
    /\ LET goAST == ParseAST(PayloadAst(callArgs[1])).ast
       IN  callRet' = Some([goAST |-> goAST,
                            wordsAndCallable |-> GetWordsAndCallable(goAST),
                            opSerial |-> GetOpSerial(goAST)])
    /\ UNCHANGED <<callArgs, callRest>>

\* SpecOps: the features of one tree are extracted.

InitOps == OpsInit /\ AllIdle
NextOps == ExtractFromTree
SpecOps == InitOps /\ [][NextOps]_vars

----------------------------------------------------------------------------
\* C25: the sequences GetOpSerial returns are a fixed point of the
\* repetition-compression pass whenever one is reached within 10 passes:
\* applying cleanOpSerial with maxLen 5 once more to the returned sequences
\* changes nothing, i.e. no returned sequence contains two adjacent
\* element-wise equal blocks of a length in 1..5.

\* The sequences before cleaning: what the traversal emits.
RawOpSerial(astRoot) ==
    LET b == opBfs(<<opQueueNode("root", astRoot, Nil)>>, <<>>, <<>>)
    IN  IF Len(b.currentSerial) > 0 THEN Append(b.result, b.currentSerial) ELSE b.result

RECURSIVE Passes(_, _)
Passes(data, n) == IF n = 0 THEN data ELSE cleanOpSerial(Passes(data, n - 1), 5)

FixedPointWithin(data, n) ==
    \E k \in 0..(n - 1) : Passes(data, k + 1) = Passes(data, k)

HasRepeatedBlock(seq) ==
    \E length \in 1..5, i \in 0..Len(seq) : blockCompare(seq, i, length)

C25_OpSerialFixedPoint ==
    (/\ callRet.some
     /\ callRet.val.opSerial.err = ""
     /\ callRet.val.opSerial.seqs.some
     /\ FixedPointWithin(RawOpSerial(callRet.val.goAST), 10)) =>
        LET seqs == callRet.val.opSerial.seqs.val
        IN  /\ cleanOpSerial(seqs, 5) = seqs
            /\ \A i \in 1..Len(seqs) : ~HasRepeatedBlock(seqs[i])

----------------------------------------------------------------------------
\* C26: for every tree on which extraction completes, the callable flag of
\* the feature set is true if and only if the tree contains at least one
\* promoted node whose kind is one of 265, 269, 515, 768, 769, wherever that
\* node sits (under sequences, keyed mappings or other nodes).

\* The kinds of the promoted nodes of a tree.
RECURSIVE NodeKinds(_)
NodeKinds(v) ==
    CASE v.t = "node" -> {v.Kind} \cup NodeKinds(v.Children)
      [] v.t = "arr" -> UNION {NodeKinds(v.a[i]) : i \in 1..Len(v.a)}
      [] v.t = "obj" -> UNION {NodeKinds(v.m[i][2]) : i \in 1..Len(v.m)}
      [] OTHER -> {}

C26_CallableInvariance ==
    (callRet.some /\ callRet.val.wordsAndCallable.err = "") =>
        LET goAST == callRet.val.goAST
            fs == ExtractAllFeatures(1, FALSE, goAST, TRUE)
        IN  fs.Callable = (NodeKinds(goAST) \cap {265, 269, 515, 768, 769} # {})

\* A call node under a keyed mapping of a node that is not callable itself.
C26_Witness ==
    /\ callRet.some
    /\ callArgs[1] = JNode(1, JObj(<< <<"expr", JLeaf(AST_CALL)>> >>))
    /\ callRet.val.wordsAndCallable.callable
    /\ callRet.val.goAST.Kind = 1
    /\ callRet.val.goAST.Children.t = "obj"

----------------------------------------------------------------------------
\* ast: the traversals step by step.  ParseAST is one step (transformAstNode
\* recurses on the parts of a finite value).  A call of checkNameAndKind is a
\* frame of ckStack, the values the call has still to visit; one step is one
\* call or one return.  One step of GetOpSerial is one iteration of its loop.
\* A goroutine stack is finite: a call beyond MaxStackDepth frames ends the
\* process with a stack overflow.

MaxStackDepth == 12

\* Trees with a mapping that has a kind key whose value is not a number.
BadKindTrees ==
    {JObj(<< <<"kind", JStr("x")>> >>),
     JNode(1, JObj(<< <<"kind", JStr("x")>>, <<"name", JStr("w")>> >>)),
     JArr(<< JLeaf(2), JObj(<< <<"kind", JBool(TRUE)>>, <<"v", JLeaf(AST_CALL)>> >>) >>)}

WalkTrees ==
    ShapeTrees \cup BadKindTrees
    \cup {JNode(1, JArr(a)) : a \in SeqsUpTo(Leaves, 2)}

WalkFunctions == {"GetWordsAndCallable", "GetOpSerial"}

WalkInit ==
    /\ walkPc = "parse"
    /\ walkFn \in WalkFunctions
    /\ walkAst \in {PayloadAst(t) : t \in WalkTrees}
    /\ ckStack = <<>>
    /\ ckWords = <<>>
    /\ ckCallable = FALSE
    /\ opQueue = <<>>
    /\ opSerial = <<>>
    /\ opResult = <<>>

walkRest == <<scoreVars, engineVars, fileVars, bridgeVars, scanVars, phpVars, loadVars,
              callVars, shutVars>>

\* ParseAST, then the entry of the function: a nil root is refused at once.
Walk_ParseAST ==
    /\ walkPc = "parse"
    /\ LET parsed == ParseAST(walkAst)
       IN  /\ walkAst' = parsed.ast
           /\ IF parsed.err # "" \/ parsed.ast.t = "null"
              THEN /\ walkPc' = "done"
                   /\ UNCHANGED <<ckStack, opQueue>>
              ELSE IF walkFn = "GetWordsAndCallable"
              THEN /\ walkPc' = "words"
                   /\ ckStack' = << <<parsed.ast>> >>
                   /\ UNCHANGED opQueue
              ELSE /\ walkPc' = "ops"
                   /\ opQueue' = <<opQueueNode("root", parsed.ast, Nil)>>
                   /\ UNCHANGED ckStack
    /\ UNCHANGED <<walkFn, ckWords, ckCallable, opSerial, opResult, walkRest>>

\* What a call checkNameAndKind(v) visits, in order.
ckFrame(v) ==
    CASE v.t = "node" -> <<v.Children>>
      [] v.t = "arr" -> v.a
      [] v.t = "obj" ->
            IF isAstNodeMap(v.m) THEN <<transformAstNode(v)>>
            ELSE [i \in 1..Len(v.m) |-> v.m[i][2]]
      [] OTHER -> <<>>

\* The word a call on v appends: the string name of a node's children map.
ckOwnWords(v) ==
    IF /\ v.t = "node"
       /\ v.Children.t = "obj"
       /\ HasKey(v.Children.m, "name")
       /\ MapGet(v.Children.m, "name").t = "str"
    THEN <<MapGet(v.Children.m, "name").s>>
    ELSE <<>>

ckTop == ckStack[Len(ckStack)]
ckNext == Head(ckTop)
ckRecurses(v) == v.t \in {"node", "arr", "obj"}

\* The running call calls checkNameAndKind on its next value.
Ck_Call ==
    /\ walkPc = "words"
    /\ ckStack # <<>> /\ ckTop # <<>>
    /\ ckRecurses(ckNext) => Len(ckStack) < MaxStackDepth
    /\ LET v == ckNext
           popped == [ckStack EXCEPT ![Len(ckStack)] = Tail(@)]
       IN  /\ ckStack' = IF ckRecurses(v) THEN Append(popped, ckFrame(v)) ELSE popped
           /\ ckWords' = ckWords \o ckOwnWords(v)
           /\ ckCallable' = (ckCallable \/ (v.t = "node" /\ v.Kind \in CallableKinds))
    /\ UNCHANGED <<walkPc, walkFn, walkAst, opQueue, opSerial, opResult, walkRest>>

\* The call would need a frame the stack has no room for.
Ck_StackOverflow ==
    /\ walkPc = "words"
    /\ ckStack # <<>> /\ ckTop # <<>>
    /\ ckRecurses(ckNext) /\ Len(ckStack) >= MaxStackDepth
    /\ walkPc' = "overflow"
    /\ UNCHANGED <<walkFn, walkAst, ckStack, ckWords, ckCallable, opQueue, opSerial,
                   opResult, walkRest>>

\* The running call has visited all its values and returns; the return of the
\* outermost call is the return of GetWordsAndCallable.
Ck_Return ==
    /\ walkPc = "words"
    /\ ckStack # <<>> /\ ckTop = <<>>
    /\ ckStack' = SubSeq(ckStack, 1, Len(ckStack) - 1)
    /\ walkPc' = IF Len(ckStack) = 1 THEN "done" ELSE "words"
    /\ UNCHANGED <<walkFn, walkAst, ckWords, ckCallable, opQueue, opSerial, opResult,
                   walkRest>>

\* for len(queue) > 0 { ... }: one iteration.
Op_Iterate ==
    /\ walkPc = "ops"
    /\ opQueue # <<>>
    /\ LET n == opIteration(opQueue, opSerial, opResult)
       IN  /\ opQueue' = n.queue
           /\ opSerial' = n.currentSerial
           /\ opResult' = n.result
    /\ UNCHANGED <<walkPc, walkFn, walkAst, ckStack, ckWords, ckCallable, walkRest>>

\* The queue is empty: the running sequence is emitted, the sequences are
\* cleaned and returned.
Op_Finish ==
    /\ walkPc = "ops"
    /\ opQueue = <<>>
    /\ LET emitted == IF Len(opSerial) > 0 THEN Append(opResult, opSerial) ELSE opResult
       IN  opResult' = cleanLoop(emitted, cleanOpSerial(emitted, maxCleanLength), 1)
    /\ opSerial' = <<>>
    /\ walkPc' = "done"
    /\ UNCHANGED <<walkFn, walkAst, ckStack, ckWords, ckCallable, opQueue, walkRest>>

\* SpecWalk: one function is called on the tree of one payload; the goroutine
\* that runs it keeps running.

InitWalk ==
    /\ WalkInit
    /\ ScoreIdle /\ EngineIdle /\ BridgeIdle /\ ScanIdle /\ PhpIdle /\ LoadIdle
    /\ CallIdle /\ ShutIdle
NextWalk ==
    \/ Walk_ParseAST
    \/ Ck_Call
    \/ Ck_StackOverflow
    \/ Ck_Return
    \/ Op_Iterate
    \/ Op_Finish
SpecWalk == InitWalk /\ [][NextWalk]_vars /\ WF_vars(NextWalk)

----------------------------------------------------------------------------
\* C27: for every finite JSON value the parser can return under ast,
\* ParseAST, GetWordsAndCallable and GetOpSerial all terminate, including for
\* trees that contain a mapping with a kind key whose value is not a number.

C27_TraversalsTerminate == <>(walkPc = "done")

----------------------------------------------------------------------------
\* php_bridge, static: Cleanup of a manager.  The manager exists, so StartBridge
\* succeeded and monitorExit waits on the exit channel.  StopBridge first closes
\* the request pipe; the parser, which leaves its loop at the end of its input,
\* exits after that; StopBridge then waits in its select, where monitorExit is
\* the other receiver of the one message.

ErrExecuteReturned == "php bridge C execute returned"
ErrStopTimeout == "timeout waiting for bridge exit signal"

\* goStdinWriter.Close(); goStdinWriter = nil, inside stopOnce.Do.
StopBridge_Close ==
    /\ initOnce /\ startErr = ""
    /\ ~stopOnce
    /\ goStdinWriter # "nil"
    /\ goStdinWriter' = "nil"
    /\ UNCHANGED <<goStdoutReader, phpProcessExited, exitChan, initOnce, startErr,
                   stopOnce, stopErr, initRuns, startCalls, stopCalls, phpRest>>

\* The parser reads the end of its input: C.execute returns.
Php_ExecuteAtEof == goStdinWriter = "nil" /\ Php_ExecuteReturns

\* The rest of the first StopBridge call, and every later call.
StopBridge_Wait == initOnce /\ startErr = "" /\ goStdinWriter = "nil" /\ StopBridge

InitStop == InitPhp
NextStop ==
    \/ StartBridge /\ UNCHANGED loadVars
    \/ StopBridge_Close /\ UNCHANGED loadVars
    \/ Php_ExecuteAtEof /\ UNCHANGED loadVars
    \/ Php_MonitorTakes /\ UNCHANGED loadVars
    \/ StopBridge_Wait /\ UNCHANGED loadVars
SpecStop == InitStop /\ [][NextStop]_vars

----------------------------------------------------------------------------
\* C28: when the parser exits after StopBridge closed the request pipe, the
\* error StopBridge stores and Cleanup returns is the same in every
\* interleaving: unless the wait timed out, it is the error of the exit
\* message, whichever of monitorExit and StopBridge received the message.

C28_StopErrorSameInEveryInterleaving ==
    (stopOnce /\ initOnce /\ startErr = "" /\ stopErr # ErrStopTimeout)
        => /\ stopErr = ErrExecuteReturned
           /\ \A i \in 1..Len(stopCalls) : stopCalls[i] = ErrExecuteReturned

----------------------------------------------------------------------------
\* SpecScanFair: one Scan whose goroutines keep running: a step that can be
\* taken is eventually taken.  Worker_scanFile has no guard but the worker's
\* position: each scanFile call returns.

\* The number of paths of a Scan of SpecScanFair, at most.
MaxFairFiles == 4

InitScanFair == InitScan /\ filesToScan <= MaxFairFiles
SpecScanFair == InitScanFair /\ [][NextScan]_vars /\ WF_vars(NextScan)

\* C29: Scan terminates for every finite file list and every concurrency:
\* the dispatch loop, the wait for the workers and the draining of the results
\* never deadlock.

C29_ScanTerminates == <>(spc = "done")

\* Scan has returned after more workers ran than the semaphore has slots.
C29_Witness ==
    /\ spc = "done"
    /\ filesToScan > EffectiveConcurrency(cfgConcurrency)
    /\ \A i \in 1..filesToScan : wpc[i] = "exited"
    /\ Len(results) = filesToScan
    /\ sem = 0 /\ wg = 0 /\ resultChan = <<>>

----------------------------------------------------------------------------
\* engine, static: several Scans on one Engine.  Scan's deferred function runs
\* on each of its return paths (no files, the error of findFiles, the report),
\* so a Scan may return after any number of files; results is a local of the
\* Scan.

\* The number of Scans that end with Cleanup.
MaxScans == 2

CleanupActive_Unchanged(active) == active

\* m.isActive = false
CleanupActive(active) == FALSE

\* Scan returns: if e.astManager != nil, the deferred Cleanup runs: StopBridge
\* closes the request pipe, at whose end the parser exits, and isActive is
\* cleared.
Scan_Return ==
    /\ fpc \in {"idle", "done"}
    /\ IF engine.val.astManager
       THEN /\ cleanupCalls < MaxScans
            /\ cleanupCalls' = cleanupCalls + 1
            /\ isActive' = CleanupActive(isActive)
            /\ parserExited' = IF parserExited = "no" THEN "exited" ELSE parserExited
       ELSE /\ nFiles > 0
            /\ UNCHANGED <<cleanupCalls, isActive, parserExited>>
    /\ fpc' = "idle"
    /\ nFiles' = 0
    /\ fStat' = Nil
    /\ fResult' = Nil
    /\ FileReset
    /\ UNCHANGED <<cfgEnabled, startFails, engine, scoreVars, bridgeVars, scanVars,
                   phpVars, loadVars, callVars, walkVars>>

InitShutdown == Init
NextShutdown ==
    \/ NewEngine
    \/ ScanStatError
    \/ scanFileBegin
    \/ scanFileAnalyze
    \/ scanFileFinish
    \/ monitorExit
    \/ Scan_Return
SpecShutdown == InitShutdown /\ [][NextShutdown]_vars

----------------------------------------------------------------------------
\* C30: once Cleanup has run, no later GetAST call writes to the request pipe
\* or reads the response pipe: the manager is inactive, and in a later Scan on
\* the same Engine every file gets its result, with no tree and with
\* bayes_words and svm_prosses never invoked.

C30_NoBridgeUseAfterCleanup ==
    cleanupCalls >= 1 =>
        /\ ~isActive
        /\ ~fWrote /\ fReply = NoReply
        /\ fFeatureSet.some =>
              /\ fFeatureSet.val.RawAST.t = "null"
              /\ ~fFeatureSet.val.ASTWords.some
        /\ fInvoked \cap {"bayes_words", "svm_prosses"} = {}
        /\ fpc = "done" => fResult.some

\* The last file of a Scan after Cleanup: not empty, on an engine whose manager
\* was started and which has bayes_words and svm_prosses registered.
C30_Witness ==
    /\ cleanupCalls >= 1
    /\ engine.some /\ engine.val.astManager
    /\ {"bayes_words", "svm_prosses", "regex"} \subseteq engine.val.analyzers
    /\ fpc = "done" /\ nFiles = MaxFiles
    /\ fFeatureSet.some /\ fContentLen > 0
    /\ "regex" \in fInvoked
    /\ fResult.some /\ fResult.val.Error = ""

====
